---- MODULE Spec2Model ----
(***************************************************************************)
(* NACME server (src/nacme/server.py): the onboarding endpoint add_host,   *)
(* the key-issuance endpoint create_api_key, the allocator (allocate_ip,   *)
(* generate_hostname) and the SQLite store they share.                     *)
(*                                                                         *)
(* Storage model.  Every request opens its own connection (get_db).  The   *)
(* connection is in autocommit mode until its first INSERT/UPDATE, so each *)
(* SELECT of a call that has not written yet reads the latest committed    *)
(* rows.  The first INSERT opens a write transaction and takes the single  *)
(* write lock of the database; the lock is kept until the connection       *)
(* commits or rolls back, also when that INSERT is rejected by a UNIQUE    *)
(* constraint (the statement is backed out, the transaction stays open).   *)
(* A connection that needs the lock while another holds it waits           *)
(* (busy_timeout): its INSERT is not enabled.  Rows written inside an open *)
(* transaction are invisible to the other connections until the commit.    *)
(***************************************************************************)
EXTENDS Integers, Sequences, FiniteSets, TLC

\* ------------------------------------------------------------------ bounds
NumProcs == 2          \* concurrent onboarding calls
MaxKeys == 1           \* rows the key-issuance endpoint may create
MaxClock == 2          \* the clock runs over 1..MaxClock
NumSuffixes == 2       \* distinct values secrets.token_hex may return
MaxStarts == 2         \* starts of the server process over one database
NumSeedHosts == 5      \* rows of a database that is already populated
MaxPrefixLen == 4      \* characters of the short hostname prefixes tried

\* ------------------------------------------------------- program constants
max_retries == 10
HOSTNAME_ATTEMPTS == 20
LARGE_PROBES == 100
LARGE_THRESHOLD == 100000
SECONDS_PER_DAY == 86400
default_expiry_days == 365
random_suffix_length == 6
MAX_PREFIX_LEN == 63

Procs == 1..NumProcs

\* Optional values (Python None / SQL NULL): <<>> is None, <<v>> is v.
None == <<>>
Some(v) == <<v>>
IsNone(x) == x = <<>>
Val(x) == x[1]

\* Python truthiness of an optional integer: None and 0 are false.
Truthy(x) == ~IsNone(x) /\ Val(x) # 0

\* ------------------------------------------------------------ address pool
\* An address is a version and an integer; a network is a version, its first
\* address and its number of addresses.
Addr(v, a) == [version |-> v, addr |-> a]
Network(v, base, n) == [version |-> v, network_address |-> base, num_addresses |-> n]

Pool29 == Network(4, 180879360, 8)           \* 10.200.0.0/29
Pool24 == Network(4, 180879360, 256)         \* 10.200.0.0/24
Pool15 == Network(4, 180879360, 131072)      \* 10.200.0.0/15
Pool125 == Network(6, 180879360, 8)          \* an IPv6 /125

InNet(ip, net) ==
    /\ ip.version = net.version
    /\ ip.addr >= net.network_address
    /\ ip.addr < net.network_address + net.num_addresses

NetworkAddress(net) == Addr(net.version, net.network_address)
BroadcastAddress(net) == Addr(net.version, net.network_address + net.num_addresses - 1)

\* A validation that forgets the broadcast address.
validate_ip_without_broadcast(ip, net) ==
    /\ InNet(ip, net)
    /\ ip # NetworkAddress(net)

\* validate_ip_in_subnet: TRUE when no ValueError is raised.
validate_ip_in_subnet(ip, net) ==
    /\ InNet(ip, net)
    /\ ip # NetworkAddress(net)
    /\ ~(net.version = 4 /\ ip = BroadcastAddress(net))

\* A key column that holds the key as it was given.
plain_key(k) == <<"plain", k>>

\* hash_key: SHA-256 of the raw key, modelled as an injective tagging.
hash_key(k) == <<"sha256", k>>

\* ------------------------------------------------------------------- state
VARIABLES
    clock,            \* time.time(), in whole seconds
    boot,             \* the server process: how often it was started, and the
                      \* number of committed rows its init_db found
    CONFIG,           \* AppConfig read from the environment at process start
    configs,          \* committed rows of table configs: key -> value
    RUNTIME_CONFIG,   \* _RUNTIME_CONFIG, loaded from table configs by init_db
    api_keys,         \* committed rows of table api_keys; the id is the index
    hosts,            \* committed rows of table hosts; the id is the index
    txn,              \* the open write transaction: owner (0: none) and its rows
    call,             \* per onboarding call: position and local variables
    issued,           \* per api_keys row: what create_api_key was given and returned
    admin,            \* the last request to POST /keys and the status of its response
    client            \* the onboarding client (client.py): position, request, files

vars == <<clock, boot, CONFIG, configs, RUNTIME_CONFIG, api_keys, hosts, txn, call, issued, admin, client>>

NoTxn == [owner |-> 0, hosts |-> <<>>, key_updates |-> <<>>]

\* The value sets requests and the environment draw from.
GroupSets == {{}, {"a"}, {"b"}}
ExpiryChoices == {None, Some(0), Some(1), Some(2)}
UsesChoices == {None, Some(-1), Some(0), Some(1), Some(2)}
\* The X-Master-Key header: the configured secret, another value, or absent
\* (fastapi.Header(None): the parameter is None, equal to no string).
MissingHeader == "<None>"
MasterKeys == {"master", "wrong", MissingHeader}
RawKeys == 1..MaxKeys
BogusKey == 0
SeedRawKey == MaxKeys + 1
SignerOutcomes == {"ok", "exit_nonzero", "missing_file", "empty_file", "no_header"}

\* secrets.randbelow(n): a few of the values 0..n-1, both ends included.
Randbelow(n) == {0, 1, n - 1} \cap (0..(n - 1))

\* request.hostname_prefix: None when absent, else the text as its characters.
Letters == {"a", "Z", "L", "i", "g", "h", "t", "H", "o", "u", "s", "e", "n", "d"}
Digits == {"7"}
AllowedChars == Letters \cup Digits \cup {"-"}

\* The characters the prefixes are drawn from: a letter, a letter of the other
\* case, a digit, the hyphen, a blank and a character that is not allowed.
PrefixAlphabet == {"a", "Z", "7", "-", " ", "_"}

RECURSIVE LStrip(_, _)
LStrip(v, ch) == IF v # <<>> /\ Head(v) = ch THEN LStrip(Tail(v), ch) ELSE v

RECURSIVE RStrip(_, _)
RStrip(v, ch) ==
    IF v # <<>> /\ v[Len(v)] = ch THEN RStrip(SubSeq(v, 1, Len(v) - 1), ch) ELSE v

\* v.strip() for blanks, v.strip("-") for hyphens.
Strip(v, ch) == RStrip(LStrip(v, ch), ch)

\* re.sub(r"-+", "-", v)
RECURSIVE CollapseHyphens(_)
CollapseHyphens(v) ==
    IF Len(v) < 2 THEN v
    ELSE IF v[1] = "-" /\ v[2] = "-" THEN CollapseHyphens(Tail(v))
    ELSE <<Head(v)>> \o CollapseHyphens(Tail(v))

\* A sanitizer that leaves repeated hyphens in place.
sanitize_without_collapse(v) ==
    IF IsNone(v) THEN [ok |-> TRUE, value |-> None]
    ELSE LET stripped == Strip(Val(v), " ")
             normal == Strip(stripped, "-")
         IN  IF Len(stripped) > MAX_PREFIX_LEN THEN [ok |-> FALSE, value |-> None]
             ELSE IF stripped = <<>> \/ \E i \in 1..Len(stripped) : stripped[i] \notin AllowedChars
                  THEN [ok |-> FALSE, value |-> None]
             ELSE IF normal = <<>> THEN [ok |-> FALSE, value |-> None]
             ELSE [ok |-> TRUE, value |-> Some(normal)]

\* AddRequest.sanitize_hostname_prefix: whether it returns, and what.
sanitize_hostname_prefix(v) ==
    IF IsNone(v) THEN [ok |-> TRUE, value |-> None]
    ELSE LET stripped == Strip(Val(v), " ")
             normal == Strip(CollapseHyphens(stripped), "-")
         IN  IF Len(stripped) > MAX_PREFIX_LEN THEN [ok |-> FALSE, value |-> None]
             ELSE IF stripped = <<>> \/ \E i \in 1..Len(stripped) : stripped[i] \notin AllowedChars
                  THEN [ok |-> FALSE, value |-> None]
             ELSE IF normal = <<>> THEN [ok |-> FALSE, value |-> None]
             ELSE [ok |-> TRUE, value |-> Some(normal)]

\* The strings of at most n characters of PrefixAlphabet.
RECURSIVE StringsUpTo(_)
StringsUpTo(n) ==
    IF n = 0 THEN {<<>>}
    ELSE StringsUpTo(n - 1) \cup
         {Append(v, ch) : v \in {w \in StringsUpTo(n - 1) : Len(w) = n - 1}, ch \in PrefixAlphabet}

Repeat(ch, n) == [i \in 1..n |-> ch]

\* The hexadecimal digits, and secrets.token_hex(nbytes): a text of 2 * nbytes
\* of them; the i-th of the texts considered repeats the i-th digit.
HexDigits ==
    <<"0", "1", "2", "3", "4", "5", "6", "7", "8", "9", "a", "b", "c", "d", "e", "f">>
token_hex(nbytes, i) == Repeat(HexDigits[i], 2 * nbytes)

LightHouse == <<"-", "-", "L", "i", "g", "h", "t", "-", "-", "H", "o", "u", "s", "e", "-", "-">>

\* The prefixes requests carry: absent, every short string, the example of the
\* documentation, and strings around the length limit.
PrefixInputs ==
    {None} \cup {Some(v) : v \in StringsUpTo(MaxPrefixLen)}
           \cup { Some(LightHouse),
                  Some(Repeat("a", MAX_PREFIX_LEN)),
                  Some(Repeat("a", MAX_PREFIX_LEN + 1)),
                  Some(<<" ">> \o Repeat("a", MAX_PREFIX_LEN) \o <<" ">>),
                  Some(Repeat("-", MAX_PREFIX_LEN) \o <<"a">>),
                  Some(Repeat("-", MAX_PREFIX_LEN - 1) \o <<"a">>) }

\* A string that ipaddress.ip_address does not parse ("", "10.0.0", "10.0.0.1/24").
NotAnAddress == Addr(0, 0)

\* request.public_key: None when the field is absent, else the text as its
\* lines.  A line is one of the kinds below; a text holds at most one line of
\* base64.
BEGIN_X25519 == "-----BEGIN NEBULA X25519 PUBLIC KEY-----"
END_X25519 == "-----END NEBULA X25519 PUBLIC KEY-----"
BEGIN_P256 == "-----BEGIN NEBULA P256 PUBLIC KEY-----"
END_P256 == "-----END NEBULA P256 PUBLIC KEY-----"
B64_32 == "base64 of 32 bytes"
B64_31 == "base64 of 31 bytes"
B64_32_JUNK == "base64 of 32 bytes with characters outside the base64 alphabet in between"
B64_BAD_PADDING == "base64 with incorrect padding"
JUNK == "characters outside the base64 alphabet"

X25519Key == Some(<<BEGIN_X25519, B64_32, END_X25519>>)

PublicKeys ==
    { None,
      Some(<<>>),
      X25519Key,
      Some(<<JUNK>>),
      Some(<<BEGIN_P256, B64_32, END_P256>>),
      Some(<<BEGIN_X25519, B64_32>>),
      Some(<<BEGIN_X25519, END_X25519>>),
      Some(<<BEGIN_X25519, B64_31, END_X25519>>),
      Some(<<BEGIN_X25519, B64_BAD_PADDING, END_X25519>>),
      Some(<<BEGIN_X25519, B64_32_JUNK, END_X25519>>),
      Some(<<BEGIN_X25519, B64_32, END_X25519, JUNK>>) }

\* line.startswith("-----")
StartsWithDashes(line) == line \in {BEGIN_X25519, END_X25519, BEGIN_P256, END_P256}

\* base64.b64decode(line) without validate: characters outside the alphabet
\* are discarded; -1 when it raises.
DecodedLength(line) ==
    CASE line \in {B64_32, B64_32_JUNK} -> 32
      [] line = B64_31 -> 31
      [] line = B64_BAD_PADDING -> -1
      [] OTHER -> 0

RECURSIVE BodyLength(_)
BodyLength(lines) ==
    IF lines = <<>> THEN 0
    ELSE IF DecodedLength(Head(lines)) < 0 \/ BodyLength(Tail(lines)) < 0 THEN -1
    ELSE DecodedLength(Head(lines)) + BodyLength(Tail(lines))

\* AddRequest.validate_public_key (and the field being required): TRUE when
\* no ValueError is raised.
validate_public_key(v) ==
    /\ ~IsNone(v)
    /\ Val(v) # <<>>
    /\ Head(Val(v)) = BEGIN_X25519
    /\ \E i \in 1..Len(Val(v)) : Val(v)[i] = END_X25519
    /\ LET base64_lines == SelectSeq(Val(v), LAMBDA line : ~StartsWithDashes(line))
       IN  /\ base64_lines # <<>>
           /\ BodyLength(base64_lines) = 32

\* AddRequest.validate_suggested_ip_format: TRUE when no ValueError is raised.
validate_suggested_ip_format(v) == IsNone(v) \/ Val(v).version \in {4, 6}

\* request.suggested_ip, relative to the configured subnet.
SuggestedChoices(net) ==
    { None,
      Some(NetworkAddress(net)),
      Some(Addr(net.version, net.network_address + 1)),
      Some(BroadcastAddress(net)),
      Some(Addr(net.version, net.network_address + net.num_addresses)),
      Some(Addr(10 - net.version, net.network_address + 1)),
      Some(NotAnAddress) }

\* The client before main() runs, with an output directory without files.
IdleClient ==
    [ pc |-> "idle", call |-> 0, argv_ip |-> None, env_ip |-> None,
      payload |-> [api_key |-> BogusKey], exit |-> None, files |-> {} ]

IdleCall ==
    [ pc |-> "idle", api_key |-> BogusKey, public_key |-> None, suggested_ip |-> None,
      prefix_sent |-> None, hostname_prefix |-> None,
      api_id |-> 0, uses |-> None, groups |-> {}, now |-> 0,
      retry_attempt |-> 0, probe |-> 0, hn_attempt |-> 0,
      candidate |-> None, ip |-> None, hn |-> None, hostname |-> None,
      host_cert |-> None,
      status |-> 0, detail |-> "", bundle |-> None ]

\* A database populated by earlier onboardings with an unmetered key.
SeedKeyRow ==
    [ key_hash |-> hash_key(SeedRawKey), expiration |-> None, uses_remaining |-> None,
      groups |-> {"a"}, created_at |-> 0 ]

\* The hostname of row i of that database: seed-0, seed-1, ...
SeedName(i) == <<<<"s", "e", "e", "d">>, <<HexDigits[i]>>>>

SeedCert(net, i) ==
    [ header |-> TRUE, name |-> SeedName(i),
      ip |-> Addr(net.version, net.network_address + i), groups |-> {"a"} ]

SeedHostRow(net, i) ==
    [ hostname |-> SeedName(i), ip |-> Addr(net.version, net.network_address + i),
      groups |-> {"a"}, expiry |-> default_expiry_days * SECONDS_PER_DAY,
      api_key_id |-> 1, current_cert |-> SeedCert(net, i),
      created_at |-> 0, updated_at |-> 0 ]

SeedHosts(net, n) == [i \in 1..n |-> SeedHostRow(net, i)]

\* AppConfig() with NACME_SUBNET_CIDR = net, NACME_MASTER_KEY = "master" and
\* the defaults of the other fields.
AppConfig(net) ==
    [ subnet_cidr |-> net, master_key |-> "master",
      default_expiry_days |-> default_expiry_days,
      random_suffix_length |-> random_suffix_length ]

ConfigKeys == {"cidr", "default_expiry_days", "random_suffix_length"}
NoConfigs == [k \in {} |-> 0]

\* A seeding that writes every key from the environment (INSERT OR REPLACE).
SeededConfigsFromEnvironment(table, cfg) ==
    [ k \in ConfigKeys |->
        IF k = "cidr" THEN cfg.subnet_cidr
        ELSE IF k = "default_expiry_days" THEN cfg.default_expiry_days
        ELSE cfg.random_suffix_length ]

\* init_db, lines 150-171: a key table configs lacks is seeded from the
\* environment; a key it holds keeps its value.
SeededConfigs(table, cfg) ==
    [ k \in ConfigKeys |->
        IF k \in DOMAIN table THEN table[k]
        ELSE IF k = "cidr" THEN cfg.subnet_cidr
        ELSE IF k = "default_expiry_days" THEN cfg.default_expiry_days
        ELSE cfg.random_suffix_length ]

\* The first start of the server with configuration cfg, on a database whose
\* configs table is empty.
InitWithConfig(cfg, seeds) ==
    /\ clock = 1
    /\ boot = [starts |-> 1, hosts |-> seeds, api_keys |-> IF seeds = 0 THEN 0 ELSE 1]
    /\ CONFIG = cfg
    /\ configs = SeededConfigs(NoConfigs, cfg)
    /\ RUNTIME_CONFIG = SeededConfigs(NoConfigs, cfg)
    /\ api_keys = IF seeds = 0 THEN <<>> ELSE <<SeedKeyRow>>
    /\ hosts = SeedHosts(cfg.subnet_cidr, seeds)
    /\ txn = NoTxn
    /\ issued = IF seeds = 0 THEN <<>>
                ELSE <<[raw |-> SeedRawKey, uses_remaining |-> None]>>
    /\ admin = [x_master_key |-> MissingHeader, groups |-> {}, status |-> 0,
                api_key |-> None]
    /\ client = IdleClient

InitWith(net, seeds) == InitWithConfig(AppConfig(net), seeds)

Init ==
    \E seeds \in {0, NumSeedHosts} :
        /\ InitWith(Pool29, seeds)
        /\ call = [p \in Procs |-> IdleCall]

\* ----------------------------------------------------------------- storage
\* The rows of table hosts a SELECT of call p returns: the committed rows and,
\* inside its own open transaction, the rows it has written.
HostsSeenBy(p) == IF txn.owner = p THEN hosts \o txn.hosts ELSE hosts

\* A lookup of the suggested address that never finds it.
CountIpNone(rows, ip) == 0

\* A lookup of the hostname that never finds it.
CountHostnameNone(rows, hn) == 0

\* SELECT COUNT(*) FROM hosts WHERE ip = ? / WHERE hostname = ?
CountIp(rows, ip) == Cardinality({i \in 1..Len(rows) : rows[i].ip = ip})
CountHostname(rows, hn) == Cardinality({i \in 1..Len(rows) : rows[i].hostname = hn})

\* SELECT ... FROM api_keys WHERE key_hash = ?  (fetchone: a row id, or 0)
LookupKey(h) ==
    IF \E i \in 1..Len(api_keys) : api_keys[i].key_hash = h
    THEN CHOOSE i \in 1..Len(api_keys) : api_keys[i].key_hash = h
    ELSE 0

\* Table hosts without the UNIQUE constraint on column ip.
UniqueViolationsHostnameOnly(rows, row) ==
    {c \in {"hostname"} : \E i \in 1..Len(rows) : rows[i].hostname = row.hostname}

\* The UNIQUE columns of table hosts a new row collides on.
UniqueViolations(rows, row) ==
    {c \in {"ip", "hostname"} :
        \E i \in 1..Len(rows) :
            \/ c = "ip" /\ rows[i].ip = row.ip
            \/ c = "hostname" /\ rows[i].hostname = row.hostname}

\* An UPDATE of uses_remaining without its WHERE clause.
RECURSIVE ApplyKeyUpdatesEveryRow(_, _)
ApplyKeyUpdatesEveryRow(keys, ups) ==
    IF ups = <<>> THEN keys
    ELSE ApplyKeyUpdatesEveryRow(
            [i \in DOMAIN keys |->
                [keys[i] EXCEPT !.uses_remaining = Some(Head(ups).uses_remaining)]],
            Tail(ups))

\* UPDATE api_keys SET uses_remaining = ? WHERE id = ?, applied in order.
RECURSIVE ApplyKeyUpdates(_, _)
ApplyKeyUpdates(keys, ups) ==
    IF ups = <<>> THEN keys
    ELSE ApplyKeyUpdates(
            [keys EXCEPT ![Head(ups).id].uses_remaining = Some(Head(ups).uses_remaining)],
            Tail(ups))

\* ---------------------------------------------------------------- allocator
NumHosts(net) == net.num_addresses - 2

\* A scan that forgets to skip the network address.
ScanOffsetFromZero(net, start_offset, i) == (start_offset + i) % NumHosts(net)

\* allocate_ip, small network: the offsets visited from start_offset, wrapping.
ScanOffset(net, start_offset, i) == ((start_offset + i) % NumHosts(net)) + 1

ScanCandidate(net, start_offset, i) ==
    Addr(net.version, net.network_address + ScanOffset(net, start_offset, i))

\* The first candidate of the scan that is not allocated, or None.
ScanFirstFree(net, allocated, start_offset) ==
    LET free == {i \in 0..(NumHosts(net) - 1) :
                    ScanCandidate(net, start_offset, i) \notin allocated}
    IN  IF free = {} THEN None
        ELSE Some(ScanCandidate(net, start_offset,
                                CHOOSE i \in free : \A j \in free : i <= j))

\* allocate_ip, large network: the candidate of one probe.
ProbeCandidate(net, r) == Addr(net.version, net.network_address + r + 1)

\* request.hostname_prefix or "node-"
DefaultPrefix == <<"n", "o", "d", "e", "-">>
PrefixOf(hostname_prefix) ==
    IF IsNone(hostname_prefix) THEN DefaultPrefix ELSE Val(hostname_prefix)

\* generate_hostname: what token_hex((suffix_len + 1) // 2) may return.
TokenOf(i) == token_hex((RUNTIME_CONFIG.random_suffix_length + 1) \div 2, i)
Tokens == {TokenOf(i) : i \in 1..NumSuffixes}

\* A suffix that keeps every digit of the token.
WholeToken(token, suffix_len) == token

\* generate_hostname: token[:suffix_len]
TruncatedSuffix(token, suffix_len) == SubSeq(token, 1, suffix_len)

\* generate_hostname: f"{prefix.rstrip('-')}-{suffix}", as the pair of the
\* text before the last hyphen and the text after it.
HostnameOf(prefix, suffix) == <<RStrip(prefix, "-"), suffix>>

\* run_nebula_sign: the certificate text, or the error it raises.
SignedCert(hostname, ip, groups) ==
    [header |-> TRUE, name |-> hostname, ip |-> ip, groups |-> groups]

\* A signer wrapper without the check of the certificate header.
run_nebula_sign_without_header_check(outcome, hostname, ip, groups) ==
    CASE outcome = "exit_nonzero" -> [ok |-> FALSE, error |-> "ProcessExecutionError", cert |-> None]
      [] outcome = "missing_file" -> [ok |-> FALSE, error |-> "RuntimeError", cert |-> None]
      [] outcome = "empty_file" -> [ok |-> FALSE, error |-> "RuntimeError", cert |-> None]
      [] outcome = "no_header" ->
           [ok |-> TRUE, error |-> "",
            cert |-> Some([header |-> FALSE, name |-> hostname, ip |-> ip, groups |-> groups])]
      [] OTHER -> [ok |-> TRUE, error |-> "", cert |-> Some(SignedCert(hostname, ip, groups))]

run_nebula_sign(outcome, hostname, ip, groups) ==
    CASE outcome = "exit_nonzero" -> [ok |-> FALSE, error |-> "ProcessExecutionError", cert |-> None]
      [] outcome = "missing_file" -> [ok |-> FALSE, error |-> "RuntimeError", cert |-> None]
      [] outcome = "empty_file" -> [ok |-> FALSE, error |-> "RuntimeError", cert |-> None]
      [] outcome = "no_header" -> [ok |-> FALSE, error |-> "RuntimeError", cert |-> None]
      [] OTHER -> [ok |-> TRUE, error |-> "", cert |-> Some(SignedCert(hostname, ip, groups))]

\* ------------------------------------------------------------- add_host
\* Admission checks that take a counter of zero for a use still left.
AdmissionCheckBelowZero(found, row, now) ==
    IF ~found THEN [status |-> 403, detail |-> "Invalid API key"]
    ELSE IF Truthy(row.expiration) /\ Val(row.expiration) < now
         THEN [status |-> 403, detail |-> "API key expired"]
    ELSE IF ~IsNone(row.uses_remaining) /\ Val(row.uses_remaining) < 0
         THEN [status |-> 403, detail |-> "No uses remaining on API key"]
    ELSE IF row.groups = {}
         THEN [status |-> 500, detail |-> "API key has no groups defined"]
    ELSE [status |-> 0, detail |-> ""]

\* The admission checks of add_host on the row read, in the order of the code:
\* the HTTP status and detail of the rejection, or status 0 when admitted.
AdmissionCheck(found, row, now) ==
    IF ~found THEN [status |-> 403, detail |-> "Invalid API key"]
    ELSE IF Truthy(row.expiration) /\ Val(row.expiration) < now
         THEN [status |-> 403, detail |-> "API key expired"]
    ELSE IF ~IsNone(row.uses_remaining) /\ Val(row.uses_remaining) <= 0
         THEN [status |-> 403, detail |-> "No uses remaining on API key"]
    ELSE IF row.groups = {}
         THEN [status |-> 500, detail |-> "API key has no groups defined"]
    ELSE [status |-> 0, detail |-> ""]

\* expiry = now + expiry_days * 86400
ExpiryOf(now) == now + RUNTIME_CONFIG.default_expiry_days * SECONDS_PER_DAY

\* A retry loop whose attempts never look at the suggestion.
AttemptPcIgnoringSuggestion(suggested_ip) == "allocate_ip"

\* Where an attempt of the retry loop starts.
AttemptPc(suggested_ip) ==
    IF ~IsNone(suggested_ip) THEN "check_suggested" ELSE "allocate_ip"

\* An exception leaves add_host: get_db rolls the connection back and closes
\* it, and the caller gets the status (an uncaught RuntimeError is answered
\* with a bare 500; detail keeps its message).  The locals of the call are
\* gone; the request, the key admitted (0: none) and the number of rejected
\* inserts are kept on record.
Failed(c, status, detail) ==
    [IdleCall EXCEPT !.pc = "failed", !.api_key = c.api_key,
                     !.public_key = c.public_key,
                     !.prefix_sent = c.prefix_sent,
                     !.suggested_ip = c.suggested_ip,
                     !.api_id = c.api_id,
                     !.retry_attempt = c.retry_attempt,
                     !.status = status, !.detail = detail]

Rollback(p) == IF txn.owner = p THEN NoTxn ELSE txn

Raise(p, status, detail) ==
    /\ call' = [call EXCEPT ![p] = Failed(call[p], status, detail)]
    /\ txn' = Rollback(p)
    /\ UNCHANGED <<clock, boot, CONFIG, configs, RUNTIME_CONFIG, api_keys, hosts, issued, admin, client>>

\* A step of call p that changes only its own locals.
Local(p, c) ==
    /\ call' = [call EXCEPT ![p] = c]
    /\ UNCHANGED <<clock, boot, CONFIG, configs, RUNTIME_CONFIG, api_keys, hosts, txn, issued, admin, client>>

\* Admission that meters the key at once, in a transaction of its own.
AdmitMeteringAtOnce(p, api_key, hostname_prefix, public_key, suggested_ip) ==
    /\ call[p].pc = "idle"
    /\ txn.owner = 0
    /\ LET id == LookupKey(hash_key(api_key))
           row == IF id = 0 THEN SeedKeyRow ELSE api_keys[id]
           chk == AdmissionCheck(id # 0, row, clock)
           req == [call[p] EXCEPT !.api_key = api_key, !.public_key = public_key,
                                  !.suggested_ip = suggested_ip,
                                  !.prefix_sent = hostname_prefix]
           pre == sanitize_hostname_prefix(hostname_prefix)
       IN  IF ~(pre.ok /\ validate_public_key(public_key)
                       /\ validate_suggested_ip_format(suggested_ip))
           THEN /\ call' = [call EXCEPT ![p] = Failed(req, 422, "Validation error")]
                /\ UNCHANGED api_keys
           ELSE IF chk.status # 0
           THEN /\ call' = [call EXCEPT ![p] = Failed(req, chk.status, chk.detail)]
                /\ UNCHANGED api_keys
           ELSE /\ call' = [call EXCEPT ![p] =
                               [req EXCEPT !.pc = AttemptPc(suggested_ip), !.api_id = id,
                                           !.hostname_prefix = pre.value,
                                           !.uses = None, !.groups = row.groups,
                                           !.now = clock, !.retry_attempt = 0]]
                /\ api_keys' = IF IsNone(row.uses_remaining) THEN api_keys
                               ELSE [api_keys EXCEPT ![id].uses_remaining =
                                        Some(Val(row.uses_remaining) - 1)]
    /\ UNCHANGED <<clock, boot, CONFIG, configs, RUNTIME_CONFIG, hosts, txn, issued, admin, client>>

\* The request arrives: its body is validated (AddRequest, lines 189-281; a
\* ValueError of a validator is answered 422 before add_host runs), then the
\* key row is read and checked (lines 468-494).
Admit(p, api_key, hostname_prefix, public_key, suggested_ip) ==
    /\ call[p].pc = "idle"
    /\ LET id == LookupKey(hash_key(api_key))
           row == IF id = 0 THEN SeedKeyRow ELSE api_keys[id]
           now == clock
           chk == AdmissionCheck(id # 0, row, now)
           req == [call[p] EXCEPT !.api_key = api_key, !.public_key = public_key,
                                  !.suggested_ip = suggested_ip,
                                  !.prefix_sent = hostname_prefix]
           pre == sanitize_hostname_prefix(hostname_prefix)
       IN  IF ~(pre.ok /\ validate_public_key(public_key)
                       /\ validate_suggested_ip_format(suggested_ip))
           THEN /\ call' = [call EXCEPT ![p] = Failed(req, 422, "Validation error")]
                /\ UNCHANGED <<clock, boot, CONFIG, configs, RUNTIME_CONFIG, api_keys, hosts, txn, issued, admin, client>>
           ELSE IF chk.status # 0
           THEN /\ call' = [call EXCEPT ![p] = Failed(req, chk.status, chk.detail)]
                /\ txn' = Rollback(p)
                /\ UNCHANGED <<clock, boot, CONFIG, configs, RUNTIME_CONFIG, api_keys, hosts, issued, admin, client>>
           ELSE Local(p, [req EXCEPT !.pc = AttemptPc(suggested_ip),
                                     !.hostname_prefix = pre.value,
                                     !.api_id = id,
                                     !.uses = row.uses_remaining,
                                     !.groups = row.groups,
                                     !.now = now,
                                     !.retry_attempt = 0])

\* The suggested IP is validated and looked up (lines 502-533).
CheckSuggested(p) ==
    /\ call[p].pc = "check_suggested"
    /\ LET c == call[p]
           sip == Val(c.suggested_ip)
       IN  IF ~validate_ip_in_subnet(sip, CONFIG.subnet_cidr)
           THEN Raise(p, 422, "Invalid suggested_ip")
           ELSE IF CountIp(HostsSeenBy(p), sip) = 0
                THEN Local(p, [c EXCEPT !.ip = Some(sip), !.pc = "hostname",
                                        !.hn_attempt = 0])
                ELSE Local(p, [c EXCEPT !.pc = "allocate_ip", !.probe = 0])

\* allocate_ip (lines 396-444): the whole scan of a small network, or one
\* probe of a large one.
AllocateIp(p) ==
    /\ call[p].pc = "allocate_ip"
    /\ LET c == call[p]
           net == RUNTIME_CONFIG.cidr
           num_hosts == NumHosts(net)
           rows == HostsSeenBy(p)
       IN  IF num_hosts < 1
           THEN Raise(p, 500, "RuntimeError: no usable addresses")
           ELSE IF num_hosts < LARGE_THRESHOLD
           THEN \E start_offset \in Randbelow(num_hosts) :
                  LET allocated == {rows[i].ip : i \in 1..Len(rows)}
                      found == ScanFirstFree(net, allocated, start_offset)
                  IN  IF IsNone(found)
                      THEN Raise(p, 500, "RuntimeError: No available IPs")
                      ELSE Local(p, [c EXCEPT !.candidate = found, !.ip = found,
                                              !.pc = "hostname", !.hn_attempt = 0])
           ELSE \E r \in Randbelow(num_hosts) :
                  LET candidate == ProbeCandidate(net, r)
                  IN  IF CountIp(rows, candidate) = 0
                      THEN Local(p, [c EXCEPT !.candidate = Some(candidate),
                                              !.ip = Some(candidate), !.pc = "hostname",
                                              !.probe = 0, !.hn_attempt = 0])
                      ELSE IF c.probe + 1 < LARGE_PROBES
                           THEN Local(p, [c EXCEPT !.candidate = Some(candidate),
                                                   !.probe = c.probe + 1])
                           ELSE Raise(p, 500, "RuntimeError: Could not allocate IP")

\* A generate_hostname that draws candidates until one is free.
GenerateHostnameUnbounded(p, token) ==
    /\ call[p].pc = "hostname"
    /\ LET c == call[p]
           suffix_len == RUNTIME_CONFIG.random_suffix_length
           suffix == TruncatedSuffix(token, suffix_len)
           hn == HostnameOf(PrefixOf(c.hostname_prefix), suffix)
       IN  IF CountHostname(HostsSeenBy(p), hn) = 0
           THEN Local(p, [c EXCEPT !.hn = Some(hn), !.hostname = Some(hn),
                                   !.pc = "sign", !.hn_attempt = 0])
           ELSE Local(p, [c EXCEPT !.hn = Some(hn),
                                   !.hn_attempt = c.hn_attempt + 1])

\* generate_hostname (lines 447-459): one candidate, from the token drawn,
\* and its lookup.
GenerateHostname(p, token) ==
    /\ call[p].pc = "hostname"
    /\ LET c == call[p]
           suffix_len == RUNTIME_CONFIG.random_suffix_length
           suffix == TruncatedSuffix(token, suffix_len)
           hn == HostnameOf(PrefixOf(c.hostname_prefix), suffix)
       IN  IF CountHostname(HostsSeenBy(p), hn) = 0
           THEN Local(p, [c EXCEPT !.hn = Some(hn), !.hostname = Some(hn),
                                   !.pc = "sign", !.hn_attempt = 0])
           ELSE IF c.hn_attempt + 1 < HOSTNAME_ATTEMPTS
                THEN Local(p, [c EXCEPT !.hn = Some(hn),
                                        !.hn_attempt = c.hn_attempt + 1])
                ELSE Raise(p, 500, "RuntimeError: Could not generate unique hostname")

\* A signer failure that is answered with another attempt.
SignRetrying(p, outcome) ==
    /\ call[p].pc = "sign"
    /\ LET c == call[p]
           res == run_nebula_sign(outcome, Val(c.hostname), Val(c.ip), c.groups)
       IN  IF res.ok
           THEN Local(p, [c EXCEPT !.host_cert = res.cert, !.pc = "insert"])
           ELSE IF c.retry_attempt < max_retries - 1
                THEN Local(p, [c EXCEPT !.retry_attempt = c.retry_attempt + 1,
                                        !.pc = AttemptPc(c.suggested_ip)])
                ELSE Raise(p, 500, "Certificate generation failed")

\* A signer step that goes on to the insert whatever the signer returned.
SignIgnoringFailure(p, outcome) ==
    /\ call[p].pc = "sign"
    /\ LET c == call[p]
           res == run_nebula_sign(outcome, Val(c.hostname), Val(c.ip), c.groups)
       IN  Local(p, [c EXCEPT !.host_cert = res.cert, !.pc = "insert"])

\* A signer step that keeps the certificate an earlier attempt of the call
\* has left.
SignKeepingCert(p, outcome) ==
    /\ call[p].pc = "sign"
    /\ LET c == call[p]
           res == run_nebula_sign(outcome, Val(c.hostname), Val(c.ip), c.groups)
       IN  IF ~IsNone(c.host_cert)
           THEN Local(p, [c EXCEPT !.pc = "insert"])
           ELSE IF res.ok
           THEN Local(p, [c EXCEPT !.host_cert = res.cert, !.pc = "insert"])
           ELSE Raise(p, 500, "Certificate generation failed")

\* The signer is invoked and ends with the given outcome (lines 545-606).
Sign(p, outcome) ==
    /\ call[p].pc = "sign"
    /\ LET c == call[p]
           res == run_nebula_sign(outcome, Val(c.hostname), Val(c.ip), c.groups)
       IN  IF res.ok
           THEN Local(p, [c EXCEPT !.host_cert = res.cert, !.pc = "insert"])
           ELSE Raise(p, 500, IF res.error = "ProcessExecutionError"
                              THEN "Certificate generation failed"
                              ELSE "Unexpected error during certificate generation")

\* A row that names the first key of the table, whatever key the call was
\* sent.
HostRowOfFirstKey(c) ==
    [ hostname |-> Val(c.hostname), ip |-> Val(c.ip), groups |-> c.groups,
      expiry |-> ExpiryOf(c.now), api_key_id |-> 1,
      current_cert |-> Val(c.host_cert), created_at |-> c.now, updated_at |-> c.now ]

\* The row the INSERT of call record c writes (lines 609-625).
HostRow(c) ==
    [ hostname |-> Val(c.hostname), ip |-> Val(c.ip), groups |-> c.groups,
      expiry |-> ExpiryOf(c.now), api_key_id |-> c.api_id,
      current_cert |-> Val(c.host_cert), created_at |-> c.now, updated_at |-> c.now ]

\* A handler that retries a collision whatever the number of the attempt.
IntegrityErrorRetriedForever(violated, retry_attempt) ==
    "ip" \in violated \/ "hostname" \in violated

\* A handler that retries a collision on hostname only.
IntegrityErrorRetriedHostnameOnly(violated, retry_attempt) ==
    /\ retry_attempt < max_retries - 1
    /\ "hostname" \in violated

\* The IntegrityError handler (lines 630-648): whether the loop continues,
\* given the columns the error message may name.
IntegrityErrorRetried(violated, retry_attempt) ==
    /\ retry_attempt < max_retries - 1
    /\ ("ip" \in violated \/ "hostname" \in violated)

\* INSERT INTO hosts and the IntegrityError handler (lines 608-659).  The
\* statement needs the write lock of the database.
Insert(p) ==
    /\ call[p].pc = "insert"
    /\ txn.owner \in {0, p}
    /\ LET c == call[p]
           row == HostRow(c)
           mine == IF txn.owner = p THEN txn ELSE [NoTxn EXCEPT !.owner = p]
           violated == UniqueViolations(HostsSeenBy(p), row)
       IN  IF violated = {}
           THEN /\ txn' = [mine EXCEPT !.hosts = Append(@, row)]
                /\ call' = [call EXCEPT ![p].pc =
                                IF IsNone(c.uses) THEN "commit" ELSE "update"]
                /\ UNCHANGED <<clock, boot, CONFIG, configs, RUNTIME_CONFIG, api_keys, hosts, issued, admin, client>>
           ELSE IF IntegrityErrorRetried(violated, c.retry_attempt)
                THEN /\ txn' = mine
                     /\ call' = [call EXCEPT ![p].retry_attempt = c.retry_attempt + 1,
                                             ![p].probe = 0,
                                             ![p].hn_attempt = 0,
                                             ![p].pc = AttemptPc(c.suggested_ip)]
                     /\ UNCHANGED <<clock, boot, CONFIG, configs, RUNTIME_CONFIG, api_keys, hosts, issued, admin, client>>
                ELSE Raise(p, 500, "Failed to create host record")

\* An update that reads the counter again when it writes it.
UpdateKeyRereading(p) ==
    /\ call[p].pc = "update"
    /\ txn.owner = p
    /\ LET c == call[p]
       IN  /\ txn' = [txn EXCEPT !.key_updates =
                          Append(@, [id |-> c.api_id,
                                     uses_remaining |->
                                        Val(api_keys[c.api_id].uses_remaining) - 1])]
           /\ call' = [call EXCEPT ![p].pc = "commit"]
    /\ UNCHANGED <<clock, boot, CONFIG, configs, RUNTIME_CONFIG, api_keys, hosts, issued, admin, client>>

\* UPDATE api_keys SET uses_remaining = uses - 1 (lines 668-672).
UpdateKey(p) ==
    /\ call[p].pc = "update"
    /\ txn.owner = p
    /\ LET c == call[p]
       IN  /\ txn' = [txn EXCEPT !.key_updates =
                          Append(@, [id |-> c.api_id, uses_remaining |-> Val(c.uses) - 1])]
           /\ call' = [call EXCEPT ![p].pc = "commit"]
    /\ UNCHANGED <<clock, boot, CONFIG, configs, RUNTIME_CONFIG, api_keys, hosts, issued, admin, client>>

\* A bundle whose expiry is counted from the time of the reply.
CertBundleAtReply(c) ==
    [ ca_cert |-> "ca_cert_content", host_cert |-> Val(c.host_cert), ip |-> Val(c.ip),
      hostname |-> Val(c.hostname), expiry |-> ExpiryOf(clock) ]

\* The bundle add_host returns (lines 684-690).
CertBundle(c) ==
    [ ca_cert |-> "ca_cert_content", host_cert |-> Val(c.host_cert), ip |-> Val(c.ip),
      hostname |-> Val(c.hostname), expiry |-> ExpiryOf(c.now) ]

\* A commit that publishes the Host rows and drops the update of the key.
CommitRowsOnly(p) ==
    /\ call[p].pc = "commit"
    /\ txn.owner = p
    /\ hosts' = hosts \o txn.hosts
    /\ txn' = NoTxn
    /\ call' = [call EXCEPT ![p].pc = "done", ![p].status = 200,
                            ![p].bundle = Some(CertBundle(call[p]))]
    /\ UNCHANGED <<clock, boot, CONFIG, configs, RUNTIME_CONFIG, api_keys, issued, admin, client>>

\* get_db commits on leaving the block, and the bundle is returned
\* (lines 109, 674-690).
Commit(p) ==
    /\ call[p].pc = "commit"
    /\ txn.owner = p
    /\ hosts' = hosts \o txn.hosts
    /\ api_keys' = ApplyKeyUpdates(api_keys, txn.key_updates)
    /\ txn' = NoTxn
    /\ call' = [call EXCEPT ![p].pc = "done", ![p].status = 200,
                            ![p].bundle = Some(CertBundle(call[p]))]
    /\ UNCHANGED <<clock, boot, CONFIG, configs, RUNTIME_CONFIG, issued, admin, client>>

\* ------------------------------------------------------- create_api_key
\* A key issuance that does not look at the X-Master-Key header.
KeyRequestStatusAnyMaster(x_master_key, groups, new_key) ==
    IF groups = {} THEN 400
    ELSE IF LookupKey(hash_key(new_key)) # 0 THEN 500
    ELSE 200

\* A key issuance that does not look at the groups.
KeyRequestStatusAnyGroups(x_master_key, groups, new_key) ==
    IF x_master_key # CONFIG.master_key THEN 403
    ELSE IF LookupKey(hash_key(new_key)) # 0 THEN 500
    ELSE 200

\* The status POST /keys answers with: verify_master_key, then the check of
\* the groups, then the INSERT, which key_hash UNIQUE may reject.
KeyRequestStatus(x_master_key, groups, new_key) ==
    IF x_master_key # CONFIG.master_key THEN 403
    ELSE IF groups = {} THEN 400
    ELSE IF LookupKey(hash_key(new_key)) # 0 THEN 500
    ELSE 200

\* POST /keys (lines 697-737).  A rejected request changes no table.
CreateApiKey(x_master_key, groups, expiry_unix, uses_remaining, new_key) ==
    /\ Len(issued) < MaxKeys + (IF Len(issued) > 0 /\ issued[1].raw = SeedRawKey THEN 1 ELSE 0)
    /\ txn.owner = 0
    /\ admin' = [x_master_key |-> x_master_key, groups |-> groups,
                 status |-> KeyRequestStatus(x_master_key, groups, new_key),
                 api_key |-> IF KeyRequestStatus(x_master_key, groups, new_key) = 200
                             THEN Some(new_key) ELSE None]
    /\ IF KeyRequestStatus(x_master_key, groups, new_key) # 200
       THEN UNCHANGED <<api_keys, issued>>
       ELSE /\ api_keys' = Append(api_keys,
                  [ key_hash |-> hash_key(new_key), expiration |-> expiry_unix,
                    uses_remaining |-> uses_remaining, groups |-> groups,
                    created_at |-> clock ])
            /\ issued' = Append(issued, [raw |-> new_key, uses_remaining |-> uses_remaining])
    /\ UNCHANGED <<clock, boot, CONFIG, configs, RUNTIME_CONFIG, hosts, txn, call, client>>

\* ------------------------------------------------------------- client.py
\* The JSON body main() posts (lines 98-100): the API key and, when it is set
\* and not empty, the hostname prefix.
ClientPayload(api_key, hostname_prefix) ==
    IF ~IsNone(hostname_prefix) /\ Val(hostname_prefix) # <<>>
    THEN [api_key |-> api_key, hostname_prefix |-> Val(hostname_prefix)]
    ELSE [api_key |-> api_key]

\* A field of a JSON object as AddRequest reads it: None when it is absent.
Field(obj, f) == IF f \in DOMAIN obj THEN Some(obj[f]) ELSE None

\* The options load_config declares (lines 41-57); parse_args ends the process
\* with status 2 on any other.
ClientOptions ==
    {"--server", "--key", "--prefix", "--out-dir", "--ca-file", "--cert-file", "--key-file"}
ARGPARSE_ERROR == 2

\* main() up to the POST (lines 86-111), run with the API key and the prefix
\* configured, with or without "--ip <argv_ip>" on the command line and with
\* or without NACME_SUGGESTED_IP=<env_ip> in the environment: exit 2 on an
\* option that is not declared, exit 0 when the cert and the key file exist,
\* else the request is sent to call slot p of the server.
ClientPost(p, api_key, hostname_prefix, argv_ip, env_ip) ==
    /\ client.pc = "idle"
    /\ call[p].pc = "idle"
    /\ LET started == [client EXCEPT !.argv_ip = argv_ip, !.env_ip = env_ip]
       IN  client' =
             IF ~IsNone(argv_ip) /\ "--ip" \notin ClientOptions
             THEN [started EXCEPT !.pc = "exited", !.exit = Some(ARGPARSE_ERROR)]
             ELSE IF {"host.crt", "host.key"} \subseteq client.files
             THEN [started EXCEPT !.pc = "exited", !.exit = Some(0)]
             ELSE [started EXCEPT !.pc = "posted", !.call = p,
                                  !.payload = ClientPayload(api_key, hostname_prefix)]
    /\ UNCHANGED <<clock, boot, CONFIG, configs, RUNTIME_CONFIG, api_keys, hosts, txn, call, issued, admin>>

\* The server takes the request of the client: add_host on its body.
ClientRequestArrives(p) ==
    /\ client.pc = "posted"
    /\ client.call = p
    /\ Admit(p, client.payload.api_key, Field(client.payload, "hostname_prefix"),
             Field(client.payload, "public_key"), Field(client.payload, "suggested_ip"))

\* The files main() has written when it reads the fields of the bundle in
\* order (lines 125-127) and the first field that is absent raises KeyError.
RECURSIVE FilesWritten(_, _)
FilesWritten(data, reads) ==
    IF reads = <<>> \/ Head(reads).field \notin DOMAIN data THEN {}
    ELSE {Head(reads).file} \cup FilesWritten(data, Tail(reads))

BundleReads ==
    << [field |-> "ca_cert", file |-> "ca.crt"],
       [field |-> "host_cert", file |-> "host.crt"],
       [field |-> "host_key", file |-> "host.key"] >>

\* main() from the response on (lines 112-148).
ClientReceive ==
    /\ client.pc = "posted"
    /\ call[client.call].pc \in {"done", "failed"}
    /\ LET c == call[client.call]
       IN  IF c.status # 200
           THEN client' = [client EXCEPT !.pc = "exited", !.exit = Some(1)]
           ELSE LET data == Val(c.bundle)
                    written == FilesWritten(data, BundleReads)
                    complete == {"ca_cert", "host_cert", "host_key", "hostname", "ip", "expiry"}
                                    \subseteq DOMAIN data
                IN  client' = [client EXCEPT !.pc = "exited",
                                             !.files = client.files \cup written,
                                             !.exit = IF complete THEN Some(0) ELSE Some(1)]
    /\ UNCHANGED <<clock, boot, CONFIG, configs, RUNTIME_CONFIG, api_keys, hosts, txn, call, issued, admin>>

\* CREATE TABLE without IF NOT EXISTS on a dropped table: no row survives.
CreateTable(rows) == <<>>

\* init_db, lines 119-148: CREATE TABLE IF NOT EXISTS on a table that exists
\* leaves its rows as they are.
CreateTableIfNotExists(rows) == rows

\* The server process ends and is started again over the same database file,
\* with the configuration cfg read from the environment.  A transaction that
\* was open is never committed; a call that was in flight gets no response.
RestartWith(cfg) ==
    /\ boot.starts < MaxStarts
    /\ CONFIG' = cfg
    /\ api_keys' = CreateTableIfNotExists(api_keys)
    /\ hosts' = CreateTableIfNotExists(hosts)
    /\ configs' = SeededConfigs(configs, cfg)
    /\ RUNTIME_CONFIG' = SeededConfigs(configs, cfg)
    /\ boot' = [starts |-> boot.starts + 1, hosts |-> Len(hosts'),
                api_keys |-> Len(api_keys')]
    /\ txn' = NoTxn
    /\ call' = [p \in DOMAIN call |->
                  IF call[p].pc \in {"idle", "done", "failed"} THEN call[p]
                  ELSE Failed(call[p], 0, "Connection closed")]
    /\ UNCHANGED <<clock, issued, admin, client>>

\* The restart with NACME_SUBNET_CIDR = env_net and the other defaults.
Restart(env_net) == RestartWith(AppConfig(env_net))

Tick ==
    /\ clock < MaxClock
    /\ clock' = clock + 1
    /\ UNCHANGED <<boot, CONFIG, configs, RUNTIME_CONFIG, api_keys, hosts, txn, call, issued, admin, client>>

\* ------------------------------------------------------------ specifications
\* The first usable address of the smallest subnet.
FirstUsable == Addr(4, Pool29.network_address + 1)

\* Concurrent calls on the smallest subnet the configuration accepts, with an
\* unmetered or a single-use key; a suggestion is absent, the network address
\* or the first usable address.
Next ==
    \/ Tick
    \/ \E k \in MasterKeys, g \in {{}, {"a"}}, u \in {None, Some(1)}, n \in RawKeys :
          CreateApiKey(k, g, None, u, n)
    \/ \E p \in Procs, k \in 0..(MaxKeys + 1),
          s \in {None, Some(NetworkAddress(Pool29)), Some(FirstUsable)} :
          Admit(p, k, None, X25519Key, s)
    \/ \E p \in Procs : CheckSuggested(p)
    \/ \E p \in Procs : AllocateIp(p)
    \/ \E p \in Procs, token \in Tokens : GenerateHostname(p, token)
    \/ \E p \in Procs, outcome \in SignerOutcomes : Sign(p, outcome)
    \/ \E p \in Procs : Insert(p)
    \/ \E p \in Procs : UpdateKey(p)
    \/ \E p \in Procs : Commit(p)

Spec == Init /\ [][Next]_vars

\* No call is in flight.
Quiescent == \A q \in DOMAIN call : call[q].pc \in {"idle", "done", "failed"}

\* One call, with every kind of key and of suggestion, while the clock runs.
Procs1 == {1}

InitAdmission ==
    \E seeds \in {0, NumSeedHosts} :
        /\ InitWith(Pool29, seeds)
        /\ call = [p \in Procs1 |-> IdleCall]

NextAdmission ==
    \/ Tick
    \/ \E k \in MasterKeys, g \in GroupSets, e \in ExpiryChoices, u \in UsesChoices,
          n \in RawKeys : CreateApiKey(k, g, e, u, n)
    \/ \E p \in Procs1, k \in 0..(MaxKeys + 1), pk \in PublicKeys,
          s \in SuggestedChoices(Pool29) : Admit(p, k, None, pk, s)
    \/ \E p \in Procs1 : CheckSuggested(p)
    \/ \E p \in Procs1 : AllocateIp(p)
    \/ \E p \in Procs1, token \in Tokens : GenerateHostname(p, token)
    \/ \E p \in Procs1, outcome \in SignerOutcomes : Sign(p, outcome)
    \/ \E p \in Procs1 : Insert(p)
    \/ \E p \in Procs1 : UpdateKey(p)
    \/ \E p \in Procs1 : Commit(p)

SpecAdmission == InitAdmission /\ [][NextAdmission]_vars

\* One more concurrent call, all with the same key of two uses; the random
\* suffixes the calls draw differ and the signer succeeds.
Procs3 == 1..(NumProcs + 1)

InitMeter ==
    /\ InitWith(Pool29, 0)
    /\ call = [p \in Procs3 |-> IdleCall]

NextMeter ==
    \/ \E n \in RawKeys : CreateApiKey("master", {"a"}, None, Some(2), n)
    \/ \E p \in Procs3, k \in RawKeys, s \in {None, Some(FirstUsable)} :
          Admit(p, k, None, X25519Key, s)
    \/ \E p \in Procs3 : CheckSuggested(p)
    \/ \E p \in Procs3 : AllocateIp(p)
    \/ \E p \in Procs3 : GenerateHostname(p, TokenOf(p))
    \/ \E p \in Procs3 : Sign(p, "ok")
    \/ \E p \in Procs3 : Insert(p)
    \/ \E p \in Procs3 : UpdateKey(p)
    \/ \E p \in Procs3 : Commit(p)

SpecMeter == InitMeter /\ [][NextMeter]_vars

\* Calls one after the other with an unmetered key, on subnets of either
\* allocation strategy and of either IP version.
Pools == {Pool29, Pool24, Pool15, Pool125}

InitPools ==
    \E net \in Pools, seeds \in {0, NumSeedHosts} :
        /\ InitWith(net, seeds)
        /\ call = [p \in Procs |-> IdleCall]

NextPools ==
    \/ \E u \in {None, Some(2)}, n \in RawKeys : CreateApiKey("master", {"a"}, None, u, n)
    \/ \E p \in Procs, k \in RawKeys, s \in SuggestedChoices(CONFIG.subnet_cidr) :
          Quiescent /\ Admit(p, k, None, X25519Key, s)
    \/ \E p \in Procs : CheckSuggested(p)
    \/ \E p \in Procs : AllocateIp(p)
    \/ \E p \in Procs, token \in Tokens : GenerateHostname(p, token)
    \/ \E p \in Procs, outcome \in SignerOutcomes : Sign(p, outcome)
    \/ \E p \in Procs : Insert(p)
    \/ \E p \in Procs : UpdateKey(p)
    \/ \E p \in Procs : Commit(p)

SpecPools == InitPools /\ [][NextPools]_vars

\* Three calls one after the other, with a key of zero, one or two uses.
InitSequential ==
    /\ InitWith(Pool29, 0)
    /\ call = [p \in Procs3 |-> IdleCall]

NextSequential ==
    \/ \E u \in {Some(0), Some(1), Some(2)}, n \in RawKeys :
          CreateApiKey("master", {"a"}, None, u, n)
    \/ \E p \in Procs3, k \in RawKeys, s \in {None, Some(FirstUsable)} :
          Quiescent /\ Admit(p, k, None, X25519Key, s)
    \/ \E p \in Procs3 : CheckSuggested(p)
    \/ \E p \in Procs3 : AllocateIp(p)
    \/ \E p \in Procs3, token \in Tokens : GenerateHostname(p, token)
    \/ \E p \in Procs3, outcome \in SignerOutcomes : Sign(p, outcome)
    \/ \E p \in Procs3 : Insert(p)
    \/ \E p \in Procs3 : UpdateKey(p)
    \/ \E p \in Procs3 : Commit(p)

SpecSequential == InitSequential /\ [][NextSequential]_vars

\* One call with a valid key and any hostname prefix.
InitSanitize ==
    /\ InitWith(Pool29, 0)
    /\ call = [p \in Procs1 |-> IdleCall]

NextSanitize ==
    \/ \E n \in RawKeys : CreateApiKey("master", {"a"}, None, None, n)
    \/ \E p \in Procs1, k \in RawKeys, pre \in PrefixInputs :
          Admit(p, k, pre, X25519Key, None)
    \/ \E p \in Procs1 : AllocateIp(p)
    \/ \E p \in Procs1, token \in Tokens : GenerateHostname(p, token)
    \/ \E p \in Procs1 : Sign(p, "ok")
    \/ \E p \in Procs1 : Insert(p)
    \/ \E p \in Procs1 : Commit(p)

SpecSanitize == InitSanitize /\ [][NextSanitize]_vars

\* Two calls and a stop and start of the server at any moment, with the same
\* or with another NACME_SUBNET_CIDR in the environment.
InitRestart ==
    /\ InitWith(Pool29, 0)
    /\ call = [p \in Procs |-> IdleCall]

NextRestart ==
    \/ \E u \in {None, Some(2)}, n \in RawKeys : CreateApiKey("master", {"a"}, None, u, n)
    \/ \E env_net \in {Pool29, Pool24} : Restart(env_net)
    \/ \E p \in Procs, k \in RawKeys, s \in {None, Some(FirstUsable)} :
          Admit(p, k, None, X25519Key, s)
    \/ \E p \in Procs : CheckSuggested(p)
    \/ \E p \in Procs : AllocateIp(p)
    \/ \E p \in Procs, token \in Tokens : GenerateHostname(p, token)
    \/ \E p \in Procs : Sign(p, "ok")
    \/ \E p \in Procs : Insert(p)
    \/ \E p \in Procs : UpdateKey(p)
    \/ \E p \in Procs : Commit(p)

SpecRestart == InitRestart /\ [][NextRestart]_vars

\* Calls one after the other around a stop and start of the server with the
\* same environment, with another subnet, or with another validity period and
\* suffix length; a suggestion is absent, in both subnets, or in the larger
\* subnet only.
OtherDefaults ==
    [AppConfig(Pool29) EXCEPT !.default_expiry_days = 30, !.random_suffix_length = 8]
EnvConfigs == {AppConfig(Pool29), AppConfig(Pool24), OtherDefaults}
OutsidePool29 == Addr(4, Pool29.network_address + Pool29.num_addresses + 1)

InitReconfigure ==
    /\ InitWith(Pool29, 0)
    /\ call = [p \in Procs |-> IdleCall]

NextReconfigure ==
    \/ \E g \in {{}, {"a"}}, u \in {None, Some(2)}, n \in RawKeys :
          CreateApiKey("master", g, None, u, n)
    \/ \E cfg \in EnvConfigs : Quiescent /\ RestartWith(cfg)
    \/ \E p \in Procs, k \in RawKeys,
          s \in {None, Some(FirstUsable), Some(OutsidePool29)} :
          Quiescent /\ Admit(p, k, None, X25519Key, s)
    \/ \E p \in Procs : CheckSuggested(p)
    \/ \E p \in Procs : AllocateIp(p)
    \/ \E p \in Procs, token \in Tokens : GenerateHostname(p, token)
    \/ \E p \in Procs : Sign(p, "ok")
    \/ \E p \in Procs : Insert(p)
    \/ \E p \in Procs : UpdateKey(p)
    \/ \E p \in Procs : Commit(p)

SpecReconfigure == InitReconfigure /\ [][NextReconfigure]_vars

\* Concurrent calls on a small and on a large subnet, empty or populated,
\* where every step of a call that can be taken is taken in the end: each
\* storage operation and each signer invocation returns.
CallStep(p) ==
    \/ CheckSuggested(p)
    \/ AllocateIp(p)
    \/ \E token \in Tokens : GenerateHostname(p, token)
    \/ \E outcome \in {"ok", "exit_nonzero"} : Sign(p, outcome)
    \/ Insert(p)
    \/ UpdateKey(p)
    \/ Commit(p)

InitLive ==
    \E x \in {<<Pool29, 0>>, <<Pool29, NumSeedHosts>>, <<Pool15, 0>>} :
        /\ InitWith(x[1], x[2])
        /\ call = [p \in Procs |-> IdleCall]

NextLive ==
    \/ \E u \in {None, Some(1)}, n \in RawKeys : CreateApiKey("master", {"a"}, None, u, n)
    \/ \E p \in Procs, k \in RawKeys,
          s \in {None, Some(Addr(4, CONFIG.subnet_cidr.network_address + 1))} :
          Admit(p, k, None, X25519Key, s)
    \/ \E p \in Procs : CallStep(p)

SpecLive ==
    InitLive /\ [][NextLive]_vars /\ \A p \in Procs : WF_vars(CallStep(p))

\* Three calls one after the other with an unmetered key and the default or a
\* given prefix, under a configured suffix length of zero, odd or the default.
SuffixLengths == {0, 5, random_suffix_length}

InitHostname ==
    \E n \in SuffixLengths :
        /\ InitWithConfig([AppConfig(Pool29) EXCEPT !.random_suffix_length = n], 0)
        /\ call = [p \in Procs3 |-> IdleCall]

NextHostname ==
    \/ \E n \in RawKeys : CreateApiKey("master", {"a"}, None, None, n)
    \/ \E p \in Procs3, k \in RawKeys, pre \in {None, Some(<<"a">>)} :
          Quiescent /\ Admit(p, k, pre, X25519Key, None)
    \/ \E p \in Procs3 : AllocateIp(p)
    \/ \E p \in Procs3, token \in Tokens : GenerateHostname(p, token)
    \/ \E p \in Procs3 : Sign(p, "ok")
    \/ \E p \in Procs3 : Insert(p)
    \/ \E p \in Procs3 : Commit(p)

SpecHostname == InitHostname /\ [][NextHostname]_vars

\* The client onboards a host through call slot 1 with a key that exists,
\* while another caller posts well-formed requests of its own.
InitClient ==
    /\ InitWith(Pool29, 0)
    /\ call = [p \in Procs |-> IdleCall]

NextClient ==
    \/ \E n \in RawKeys : CreateApiKey("master", {"a"}, None, None, n)
    \/ \E k \in RawKeys, pre \in {None, Some(<<>>), Some(<<"a">>)} :
          LookupKey(hash_key(k)) # 0 /\ ClientPost(1, k, pre, None, None)
    \/ \E k \in RawKeys, argv_ip \in {None, Some(FirstUsable)} :
          LookupKey(hash_key(k)) # 0
            /\ ClientPost(1, k, None, argv_ip,
                          IF IsNone(argv_ip) THEN Some(FirstUsable) ELSE None)
    \/ ClientRequestArrives(1)
    \/ ClientReceive
    \/ \E k \in RawKeys, s \in {None, Some(FirstUsable)} : Admit(2, k, None, X25519Key, s)
    \/ \E p \in Procs : CheckSuggested(p)
    \/ \E p \in Procs : AllocateIp(p)
    \/ \E p \in Procs, token \in Tokens : GenerateHostname(p, token)
    \/ \E p \in Procs, outcome \in SignerOutcomes : Sign(p, outcome)
    \/ \E p \in Procs : Insert(p)
    \/ \E p \in Procs : Commit(p)

SpecClient == InitClient /\ [][NextClient]_vars

\* ------------------------------------------------------------------ claims
Calls == DOMAIN call
HostIds == 1..Len(hosts)
KeyIds == 1..Len(api_keys)

\* A usable address of a network: inside it, not its first address and, for
\* IPv4, not its last.
Usable(ip, net) ==
    /\ ip.version = net.version
    /\ ip.addr > net.network_address
    /\ ip.addr < net.network_address + net.num_addresses
    /\ (net.version = 4 => ip.addr # net.network_address + net.num_addresses - 1)

\* The committed rows created with key id i.
HostsOfKey(i) == {j \in HostIds : hosts[j].api_key_id = i}

\* C1: no two committed Host rows share an ip, and no two share a hostname.
C1_Uniqueness ==
    \A i, j \in HostIds :
        i # j => /\ hosts[i].ip # hosts[j].ip
                 /\ hosts[i].hostname # hosts[j].hostname

\* Two calls proposed colliding rows; one committed, the other was rejected by
\* the constraint, retried and committed too.
C1_Witness ==
    \E p, q \in Calls :
        /\ p # q
        /\ call[p].pc = "done" /\ call[q].pc = "done"
        /\ call[q].retry_attempt >= 1

\* C2: a key created with uses_remaining = k >= 0 has at most k committed Host
\* rows, whatever the interleaving of the calls that use it.
C2_AtMostKSuccesses ==
    \A i \in KeyIds :
        (~IsNone(issued[i].uses_remaining) /\ Val(issued[i].uses_remaining) >= 0)
            => Cardinality(HostsOfKey(i)) <= Val(issued[i].uses_remaining)

\* What holds an address.
SeedHolds(ip) == \E j \in HostIds : hosts[j].hostname = SeedName(j) /\ hosts[j].ip = ip
Held(ip) == \E j \in HostIds : hosts[j].ip = ip
PoolFull(net) ==
    \A a \in (net.network_address + 1)..(net.network_address + net.num_addresses - 2) :
        Held(Addr(net.version, a))
Committed(b) ==
    \E j \in HostIds : /\ hosts[j].ip = b.ip
                       /\ hosts[j].hostname = b.hostname
                       /\ hosts[j].current_cert = b.host_cert
DoneWith(ip) == {p \in Calls : call[p].pc = "done" /\ Val(call[p].bundle).ip = ip}

\* C3: when every call made so far suggested the same valid address, free
\* before the first of them, then as soon as one call has committed exactly one
\* call has committed the suggested address, every other committed call got a
\* different usable address of the pool, and no call failed for lack of an
\* address or for a rejected insert.
C3_SameSuggestion ==
    ( /\ ~SeedHolds(FirstUsable)
      /\ \A p \in Calls : call[p].pc # "idle" => call[p].suggested_ip = Some(FirstUsable) )
    => /\ (\E p \in Calls : call[p].pc = "done") => Cardinality(DoneWith(FirstUsable)) = 1
       /\ \A p \in Calls :
            /\ call[p].pc = "done" =>
                 /\ Committed(Val(call[p].bundle))
                 /\ Usable(Val(call[p].bundle).ip, CONFIG.subnet_cidr)
            /\ call[p].pc = "failed" =>
                 call[p].detail \notin {"Failed to create host record",
                                        "RuntimeError: No available IPs",
                                        "RuntimeError: Could not allocate IP"}

\* Every call suggested the same free address; both committed, one of them
\* after its insert of the suggested address was rejected.
C3_Witness ==
    /\ ~SeedHolds(FirstUsable)
    /\ \A p \in Calls : /\ call[p].pc = "done"
                        /\ call[p].suggested_ip = Some(FirstUsable)
    /\ \E p \in Calls : call[p].retry_attempt = 1 /\ Val(call[p].bundle).ip # FirstUsable

\* C4: the committed rows change only in the step in which a call commits and
\* succeeds (or a key is created); the step in which a call fails changes no
\* committed row and discards its transaction; a failed call takes no further
\* step.
C4_FailureLeavesStore ==
    [][ /\ ( \/ hosts' # hosts
             \/ \E i \in KeyIds : api_keys'[i] # api_keys[i] )
           => \E p \in Calls : /\ call[p].pc = "commit"
                               /\ call'[p].pc = "done"
                               /\ call'[p].status = 200
        /\ \A p \in Calls :
             /\ (call[p].pc # "failed" /\ call'[p].pc = "failed")
                  => /\ hosts' = hosts
                     /\ api_keys' = api_keys
                     /\ txn'.owner # p
                     /\ (txn.owner = p => txn' = NoTxn)
             /\ call[p].pc = "failed" => call'[p] = call[p]
      ]_vars

\* A call failed after an insert of its own had been rejected.
C4_Witness ==
    \E p \in Calls : /\ call[p].pc = "failed"
                     /\ call[p].retry_attempt >= 1
                     /\ call[p].status = 500

\* C5: for every metered key, uses_remaining at creation minus the stored
\* uses_remaining is the number of committed Host rows created with the key.
C5_DecrementPerHost ==
    \A i \in KeyIds :
        ~IsNone(issued[i].uses_remaining)
            => Val(issued[i].uses_remaining) - Val(api_keys[i].uses_remaining)
                 = Cardinality(HostsOfKey(i))

\* C6: the stored uses_remaining of a metered key never increases from one
\* committed state to the next and is never below zero.
C6_UsesNeverIncrease ==
    [][ \A i \in KeyIds :
          ~IsNone(api_keys[i].uses_remaining)
            => /\ Val(api_keys'[i].uses_remaining) <= Val(api_keys[i].uses_remaining)
               /\ Val(api_keys'[i].uses_remaining) >= 0
      ]_vars

\* C7: a call whose key has an expiration that is set and strictly less than
\* the time of the call is rejected at admission as expired, whatever the
\* timestamp and whatever uses_remaining.
C7_ExpiredRejected ==
    [][ \A p \in Calls :
          (call[p].pc = "idle" /\ call'[p].pc # "idle")
            => LET id == LookupKey(hash_key(call'[p].api_key))
               IN  ( /\ id # 0
                     /\ ~IsNone(api_keys[id].expiration)
                     /\ Val(api_keys[id].expiration) < clock )
                   => /\ call'[p].pc = "failed"
                      /\ call'[p].status = 403
                      /\ call'[p].detail = "API key expired"
      ]_vars

\* C8: the address automatic allocation returns is a usable address of the
\* pool: in the pool, not its network address and, for IPv4, not its broadcast
\* address; in 10.200.0.0/24 it is one of 10.200.0.1 .. 10.200.0.254.
C8_AllocatedIsUsable ==
    [][ \A p \in Calls :
          (call[p].pc = "allocate_ip" /\ call'[p].pc = "hostname")
            => /\ Usable(Val(call'[p].ip), RUNTIME_CONFIG.cidr)
               /\ RUNTIME_CONFIG.cidr = Pool24
                    => Val(call'[p].ip).addr \in
                         (Pool24.network_address + 1)..(Pool24.network_address + 254)
      ]_vars

\* Automatic allocation returned the last usable address of a large pool, and
\* the last usable address of 10.200.0.0/24.
C8_Witness ==
    \E p \in Calls :
        /\ call[p].pc = "hostname"
        /\ IsNone(call[p].suggested_ip)
        /\ RUNTIME_CONFIG.cidr \in {Pool15, Pool24}
        /\ Val(call[p].ip).addr =
             RUNTIME_CONFIG.cidr.network_address + RUNTIME_CONFIG.cidr.num_addresses - 2

\* C9: a call with an admitted key whose suggestion is not a usable address of
\* the configured pool goes no further than the check of the suggestion in its
\* first attempt: it fails with status 422, holds no address, signs nothing,
\* writes nothing, and the committed rows stay as they were.
C9_InvalidSuggestionRejected ==
    \A p \in Calls :
        ( /\ ~IsNone(call[p].suggested_ip)
          /\ ~Usable(Val(call[p].suggested_ip), CONFIG.subnet_cidr) )
        => /\ call[p].pc \in {"idle", "check_suggested", "failed"}
           /\ call[p].retry_attempt = 0
           /\ IsNone(call[p].ip) /\ IsNone(call[p].host_cert)
           /\ txn.owner # p
           /\ (call[p].pc = "failed" /\ call[p].api_id # 0)
                => /\ call[p].status = 422
                   /\ call[p].detail = "Invalid suggested_ip"
           /\ Len(hosts) \in {0, NumSeedHosts}
           /\ \A i \in KeyIds : api_keys[i].uses_remaining = issued[i].uses_remaining

\* A call with an admitted metered key suggested the broadcast address and was
\* rejected.
C9_Witness ==
    \E p \in Calls :
        /\ call[p].pc = "failed"
        /\ call[p].api_id # 0
        /\ ~IsNone(api_keys[call[p].api_id].uses_remaining)
        /\ call[p].suggested_ip = Some(BroadcastAddress(CONFIG.subnet_cidr))
        /\ call[p].status = 422

C11_SuggestionHonored ==
    [][ \A p \in Calls :
          ( /\ call[p].pc = "commit" /\ call'[p].pc = "done"
            /\ ~IsNone(call[p].suggested_ip)
            /\ Usable(Val(call[p].suggested_ip), CONFIG.subnet_cidr)
            /\ ~Held(Val(call[p].suggested_ip)) )
          => /\ Val(call'[p].bundle).ip = Val(call[p].suggested_ip)
             /\ \E j \in 1..Len(hosts') :
                   /\ j > Len(hosts)
                   /\ hosts'[j].ip = Val(call[p].suggested_ip)
                   /\ hosts'[j].hostname = Val(call'[p].bundle).hostname
      ]_vars

\* A call committed its suggested address after an insert of its own had been
\* rejected for the hostname.
C11_Witness ==
    \E p \in Calls :
        /\ call[p].pc = "done"
        /\ call[p].retry_attempt >= 1
        /\ call[p].suggested_ip = Some(FirstUsable)
        /\ Val(call[p].bundle).ip = FirstUsable
        /\ Committed(Val(call[p].bundle))

\* C12: with calls made one after the other and a key created with
\* uses_remaining = k, a call is admitted while fewer than k Host rows reference
\* the key and is rejected as exhausted once k rows do; the stored counter is k
\* minus the number of those rows, which never exceeds k.
C12_SequentialMetering ==
    [][ /\ \A i \in KeyIds :
             /\ Cardinality(HostsOfKey(i)) <= Val(issued[i].uses_remaining)
             /\ Val(api_keys[i].uses_remaining) =
                  Val(issued[i].uses_remaining) - Cardinality(HostsOfKey(i))
        /\ \A p \in Calls :
             (call[p].pc = "idle" /\ call'[p].pc # "idle")
               => LET id == LookupKey(hash_key(call'[p].api_key))
                  IN  id # 0 =>
                        IF Cardinality(HostsOfKey(id)) < Val(issued[id].uses_remaining)
                        THEN call'[p].pc # "failed" /\ call'[p].api_id = id
                        ELSE /\ call'[p].pc = "failed"
                             /\ call'[p].status = 403
                             /\ call'[p].detail = "No uses remaining on API key"
                             /\ Cardinality(HostsOfKey(id)) = Val(issued[id].uses_remaining)
      ]_vars

\* A key of k >= 1 uses served k calls, and the next call was rejected as
\* exhausted.
C12_Witness ==
    \E p \in Calls, i \in KeyIds :
        /\ call[p].pc = "failed"
        /\ call[p].detail = "No uses remaining on API key"
        /\ call[p].api_key = issued[i].raw
        /\ Val(issued[i].uses_remaining) >= 1
        /\ Cardinality(HostsOfKey(i)) = Val(issued[i].uses_remaining)
        /\ Cardinality({q \in Calls : call[q].pc = "done"}) = Val(issued[i].uses_remaining)

\* C13: a call makes at most max_retries = 10 attempts, each signing at most
\* once and inserting at most once; a new attempt starts only from an insert
\* rejected for ip or hostname; the handler retries a rejected insert in
\* attempts 1 to 9 and not in attempt 10, where the call fails with status 500
\* and the committed rows stay as they were.
C13_BoundedAttempts ==
    [][ /\ \A violated \in (SUBSET {"ip", "hostname"}) \ {{}}, n \in 0..(max_retries - 1) :
             IntegrityErrorRetried(violated, n) <=> n < max_retries - 1
        /\ \A p \in Calls :
             LET c == call[p]
                 d == call'[p]
             IN  /\ c.retry_attempt <= max_retries - 1
                 /\ d.retry_attempt # c.retry_attempt
                      => /\ c.pc = "insert"
                         /\ d.retry_attempt = c.retry_attempt + 1
                         /\ UniqueViolations(HostsSeenBy(p), HostRow(c)) # {}
                         /\ d.pc = AttemptPc(c.suggested_ip)
                         /\ hosts' = hosts /\ api_keys' = api_keys
                 /\ (c.pc = "insert" /\ d.pc \in {"check_suggested", "allocate_ip"})
                      => d.retry_attempt = c.retry_attempt + 1
                 /\ (c.pc = "insert" /\ d.pc # "insert"
                        /\ UniqueViolations(HostsSeenBy(p), HostRow(c)) # {}
                        /\ c.retry_attempt = max_retries - 1)
                      => /\ d.pc = "failed" /\ d.status = 500
                         /\ hosts' = hosts /\ api_keys' = api_keys
                 /\ (c.pc = "sign" /\ d.pc # "sign") => d.pc \in {"insert", "failed"}
                 /\ (d.pc = "sign" /\ c.pc # "sign") => c.pc = "hostname"
                 /\ (d.pc = "insert" /\ c.pc # "insert") => c.pc = "sign"
      ]_vars

\* A call is in its second attempt, signed again and about to insert again,
\* after the insert of its first attempt was rejected.
C13_Witness ==
    \E p \in Calls :
        /\ call[p].pc = "insert"
        /\ call[p].retry_attempt = 1
        /\ txn.owner = p

\* The details of the failures of the signer.
SignerFailures ==
    {"Certificate generation failed", "Unexpected error during certificate generation"}

\* C14: every outcome of the signer other than success (non-zero exit, missing
\* file, empty file, file without the certificate header) is an error, and the
\* step in which the signer fails ends the call with status 500: no further
\* attempt, the transaction of the call discarded, the committed Host rows and
\* the stored uses_remaining as they were.
C14_SignerFailureEndsCall ==
    [][ /\ \A outcome \in SignerOutcomes \ {"ok"} :
             ~run_nebula_sign(outcome, HostnameOf(DefaultPrefix, <<"0">>), FirstUsable, {"a"}).ok
        /\ \A p \in Calls :
             LET c == call[p]
                 d == call'[p]
             IN  /\ (c.pc = "sign" /\ d.pc # "sign")
                      => \/ /\ d.pc = "insert"
                            /\ d.retry_attempt = c.retry_attempt
                            /\ d.host_cert = Some(SignedCert(Val(c.hostname), Val(c.ip), c.groups))
                         \/ /\ d.pc = "failed"
                            /\ d.status = 500
                            /\ d.detail \in SignerFailures
                            /\ hosts' = hosts
                            /\ api_keys' = api_keys
                            /\ txn'.owner # p
                            /\ txn'.owner = 0 => txn' = NoTxn
                 /\ (c.pc = "failed" /\ c.detail \in SignerFailures) => d = c
      ]_vars

\* A call with a metered key failed at the signer in its second attempt, inside
\* its open transaction; the only row of the key is the one of the other call,
\* and the counter of the key is one less than it was created with.
C14_Witness ==
    \E p \in Calls :
        /\ call[p].pc = "failed"
        /\ call[p].detail \in SignerFailures
        /\ call[p].retry_attempt = 1
        /\ call[p].api_id # 0
        /\ ~IsNone(api_keys[call[p].api_id].uses_remaining)
        /\ Cardinality(HostsOfKey(call[p].api_id)) = 1
        /\ Val(api_keys[call[p].api_id].uses_remaining) =
             Val(issued[call[p].api_id].uses_remaining) - 1
        /\ txn.owner # p

\* C16: every committed Host row holds a certificate that is present, carries
\* the certificate header and was signed for the hostname, the address and the
\* groups of the row.
C16_CommittedCertValid ==
    \A j \in HostIds :
        /\ hosts[j].current_cert.header
        /\ hosts[j].current_cert.name = hosts[j].hostname
        /\ hosts[j].current_cert.ip = hosts[j].ip
        /\ hosts[j].current_cert.groups = hosts[j].groups

\* A call committed a row in its second attempt, with the certificate signed in
\* that attempt.
C16_Witness ==
    \E p \in Calls :
        /\ call[p].pc = "done"
        /\ call[p].retry_attempt = 1
        /\ \E j \in HostIds :
              /\ hosts[j].hostname = Val(call[p].hostname)
              /\ hosts[j].current_cert = Val(call[p].host_cert)
              /\ hosts[j].current_cert.ip = Val(call[p].bundle).ip

\* C15: the Host row of a call and the UPDATE of uses_remaining of the same call
\* become visible to the other requests in one step: the step that adds a
\* committed Host row is the commit of one call, adds exactly its row and, for a
\* metered key, stores what its UPDATE wrote; no step changes a stored counter
\* without adding a Host row of that key; and before its commit neither the row
\* nor the update of a call is in the committed state.
C15_AtomicCommit ==
    [][ /\ hosts' # hosts
             => \E p \in Calls :
                  /\ call[p].pc = "commit" /\ call'[p].pc = "done"
                  /\ hosts' = Append(hosts, HostRow(call[p]))
                  /\ \A i \in KeyIds :
                        IF i = call[p].api_id /\ ~IsNone(call[p].uses)
                        THEN /\ api_keys'[i].uses_remaining = Some(Val(call[p].uses) - 1)
                             /\ txn.key_updates =
                                  <<[id |-> i, uses_remaining |-> Val(call[p].uses) - 1]>>
                        ELSE api_keys'[i] = api_keys[i]
        /\ \A i \in KeyIds :
             api_keys'[i] # api_keys[i]
               => /\ Len(hosts') = Len(hosts) + 1
                  /\ hosts'[Len(hosts')].api_key_id = i
        /\ \A p \in Calls :
             call[p].pc \in {"update", "commit"}
               => /\ txn.owner = p
                  /\ txn.hosts = <<HostRow(call[p])>>
                  /\ ~Held(Val(call[p].ip))
                  /\ CountHostname(hosts, Val(call[p].hostname)) = 0
      ]_vars

\* A call with a metered key committed its row and its decrement while another
\* call was in flight.
C15_Witness ==
    \E p, q \in Calls :
        /\ call[p].pc = "done"
        /\ ~IsNone(call[p].uses)
        /\ Committed(Val(call[p].bundle))
        /\ api_keys[call[p].api_id].uses_remaining = Some(Val(call[p].uses) - 1)
        /\ call[q].pc \in {"check_suggested", "allocate_ip", "hostname", "sign", "insert"}

\* C17: a row of api_keys is created only by a request to POST /keys that
\* presents the configured master key and a non-empty group set, one row per
\* request and with those groups; a request whose X-Master-Key header is absent
\* or different is answered 403, one with the master key and an empty group set
\* 400, and both leave api_keys as it was; no row is ever removed.
C17_KeyIssuanceGuarded ==
    [][ /\ Len(api_keys') >= Len(api_keys)
        /\ Len(api_keys') > Len(api_keys)
             => /\ Len(api_keys') = Len(api_keys) + 1
                /\ admin'.status = 200
                /\ admin'.x_master_key = CONFIG.master_key
                /\ admin'.groups # {}
                /\ api_keys'[Len(api_keys')].groups = admin'.groups
                /\ \A i \in KeyIds : api_keys'[i] = api_keys[i]
                /\ hosts' = hosts /\ call' = call
        /\ admin' # admin
             => /\ admin'.x_master_key # CONFIG.master_key => admin'.status = 403
                /\ (admin'.x_master_key = CONFIG.master_key /\ admin'.groups = {})
                     => admin'.status = 400
                /\ admin'.status # 200 => api_keys' = api_keys /\ issued' = issued
                /\ admin'.status = 200 => Len(api_keys') = Len(api_keys) + 1
      ]_vars

\* A request without the X-Master-Key header, with a non-empty group set, was
\* answered 403 while api_keys held the one row it held before.
C17_Witness ==
    /\ admin.status = 403
    /\ admin.x_master_key = MissingHeader
    /\ admin.groups # {}
    /\ api_keys = <<SeedKeyRow>>

\* A public key in the form the client sends: the X25519 header line, one line
\* of base64 of 32 bytes, the X25519 footer line, and nothing else.
WellFormedKey(v) == v = X25519Key

\* C18: a call whose public key is absent, empty, of another key type or
\* malformed in any other way, or whose suggested IP is not an address, is
\* answered 422 before admission: its key is not looked up, it signs nothing and
\* writes nothing.
C18_MalformedRequestRejected ==
    \A p \in Calls :
        ( /\ call[p].pc # "idle"
          /\ \/ ~WellFormedKey(call[p].public_key)
             \/ call[p].suggested_ip = Some(NotAnAddress) )
        => /\ call[p].pc = "failed"
           /\ call[p].status = 422
           /\ call[p].api_id = 0
           /\ txn.owner # p

\* C19: the prefix a call was admitted with is a fixed point of sanitization
\* (sanitizing it again returns it unchanged), is non-empty, has at most 63
\* characters, all of them letters, digits or hyphens, no two adjacent hyphens
\* and no hyphen at either end; "--Light--House--" gives "Light-House".
C19_SanitizeIdempotent ==
    \A p \in Calls :
        (call[p].pc \notin {"idle", "failed"} /\ ~IsNone(call[p].prefix_sent))
        => LET v == call[p].hostname_prefix
               t == Val(v)
           IN  /\ ~IsNone(v)
               /\ sanitize_hostname_prefix(v) = [ok |-> TRUE, value |-> v]
               /\ Len(t) >= 1 /\ Len(t) <= MAX_PREFIX_LEN
               /\ \A i \in 1..Len(t) : t[i] \in AllowedChars
               /\ \A i \in 1..(Len(t) - 1) : ~(t[i] = "-" /\ t[i + 1] = "-")
               /\ t[1] # "-" /\ t[Len(t)] # "-"
               /\ call[p].prefix_sent = Some(LightHouse)
                    => t = <<"L", "i", "g", "h", "t", "-", "H", "o", "u", "s", "e">>

\* A call sent "--Light--House--", was admitted with another prefix and
\* committed a hostname made of it.
C19_Witness ==
    \E p \in Calls :
        /\ call[p].pc = "done"
        /\ call[p].prefix_sent = Some(LightHouse)
        /\ call[p].hostname_prefix # call[p].prefix_sent
        /\ Val(call[p].bundle).hostname[1] = Val(call[p].hostname_prefix)

\* C20: a run of the client with an API key the server holds and an output
\* directory without files ends with exit status 0, the request answered 200,
\* and the CA certificate, the host certificate and the host key written.
C20_ClientOnboards ==
    ( /\ client.pc = "exited"
      /\ LookupKey(hash_key(client.payload.api_key)) # 0 )
    => /\ client.exit = Some(0)
       /\ call[client.call].status = 200
       /\ {"ca.crt", "host.crt", "host.key"} \subseteq client.files

\* C21: a run of the client given a suggested IP, by --ip or by
\* NACME_SUGGESTED_IP, with an API key the server holds and the suggested
\* address valid and held by no row, ends with exit status 0 and the host
\* enrolled with exactly that address.
C21_ClientPassesSuggestion ==
    ( /\ client.pc = "exited"
      /\ ~(IsNone(client.argv_ip) /\ IsNone(client.env_ip))
      /\ LookupKey(hash_key(client.payload.api_key)) # 0 \/ client.call = 0 )
    => LET ip == IF IsNone(client.argv_ip) THEN Val(client.env_ip) ELSE Val(client.argv_ip)
       IN  Usable(ip, CONFIG.subnet_cidr) /\ ~Held(ip)
             => /\ client.exit = Some(0)
                /\ client.call # 0
                /\ call[client.call].pc = "done"
                /\ Val(call[client.call].bundle).ip = ip

\* C22: a restart of the server over the same database leaves every committed
\* row of api_keys and of hosts as it was; after it a call with a key issued
\* before it is admitted, and every row of hosts committed after it differs in
\* ip and in hostname from every row committed before it.
C22_RestartKeepsRows ==
    [][ /\ boot'.starts # boot.starts
            => /\ api_keys' = api_keys
               /\ hosts' = hosts
               /\ boot'.api_keys = Len(api_keys)
               /\ boot'.hosts = Len(hosts)
        /\ \A p \in DOMAIN call :
              ( /\ boot.starts > 1
                /\ call[p].pc = "idle" /\ call'[p].pc # "idle"
                /\ LookupKey(hash_key(call'[p].api_key)) \in 1..boot.api_keys )
              => /\ call'[p].pc # "failed"
                 /\ call'[p].api_id = LookupKey(hash_key(call'[p].api_key))
        /\ \A i \in 1..Len(hosts') :
              /\ i <= Len(hosts) => hosts'[i] = hosts[i]
              /\ \A j \in 1..boot'.hosts :
                    i > boot'.hosts => /\ hosts'[i].ip # hosts'[j].ip
                                      /\ hosts'[i].hostname # hosts'[j].hostname
      ]_vars

\* A host is onboarded after a restart, with a key issued before the restart
\* and next to a host onboarded before it.
C22_Witness ==
    /\ boot.starts > 1
    /\ boot.api_keys = 1
    /\ boot.hosts = 1
    /\ Len(hosts) = 2
    /\ hosts[2].api_key_id = 1
    /\ \E p \in DOMAIN call : call[p].pc = "done" /\ Val(call[p].bundle).ip = hosts[2].ip

\* C23: no table holds a raw API key.  Every row of api_keys holds in key_hash
\* the SHA-256 digest of the key that was issued and has no other column a key
\* could be in; the raw key is in the response of the request that issued it
\* and in no other; an onboarding call finds its row by the digest of the key
\* it was sent, and the rows and updates it writes have the columns of the
\* schema, none of which takes the key.
ApiKeyColumns == {"key_hash", "expiration", "uses_remaining", "groups", "created_at"}
HostColumns ==
    {"hostname", "ip", "groups", "expiry", "api_key_id", "current_cert",
     "created_at", "updated_at"}

C23_OnlyDigestStored ==
    /\ Len(api_keys) = Len(issued)
    /\ \A i \in 1..Len(api_keys) :
          /\ DOMAIN api_keys[i] = ApiKeyColumns
          /\ api_keys[i].key_hash = <<"sha256", issued[i].raw>>
    /\ \A i \in 1..Len(hosts \o txn.hosts) :
          LET row == (hosts \o txn.hosts)[i]
          IN  /\ DOMAIN row = HostColumns
              /\ DOMAIN row.current_cert = {"header", "name", "ip", "groups"}
              /\ row.api_key_id \in 1..Len(api_keys)
              /\ row.groups = api_keys[row.api_key_id].groups
              /\ row.current_cert.groups = row.groups
              /\ row.current_cert.ip = row.ip
              /\ row.current_cert.name = row.hostname
    /\ \A i \in 1..Len(txn.key_updates) :
          DOMAIN txn.key_updates[i] = {"id", "uses_remaining"}
    /\ DOMAIN configs = ConfigKeys
    /\ IF admin.status = 200
       THEN admin.api_key = Some(issued[Len(issued)].raw)
       ELSE admin.api_key = None
    /\ \A p \in DOMAIN call :
          /\ call[p].api_id # 0
               => api_keys[call[p].api_id].key_hash = <<"sha256", call[p].api_key>>
          /\ call[p].pc = "done"
               => DOMAIN Val(call[p].bundle) = {"ca_cert", "host_cert", "ip", "hostname", "expiry"}

\* A key was issued and a call that was sent it has written a row.
C23_Witness ==
    /\ admin.status = 200
    /\ \E p \in DOMAIN call :
          /\ call[p].pc = "done"
          /\ call[p].api_key = Val(admin.api_key)
          /\ \E i \in 1..Len(hosts) :
                /\ hosts[i].ip = Val(call[p].bundle).ip
                /\ api_keys[hosts[i].api_key_id].key_hash = <<"sha256", call[p].api_key>>

\* The step of call p that proposes the IP, or the hostname, of an attempt
\* after the first; the unprimed call still holds what the rejected attempt
\* proposed.
ProposesIpAgain(p) ==
    /\ call[p].retry_attempt > 0
    /\ call[p].pc \in {"check_suggested", "allocate_ip"}
    /\ call'[p].pc = "hostname"

ProposesHostnameAgain(p) ==
    /\ call[p].retry_attempt > 0
    /\ call[p].pc = "hostname"
    /\ call'[p].pc = "sign"

\* C24 as stated: after an insert was rejected by a uniqueness violation, the
\* next attempt of the call proposes neither the IP nor the hostname the
\* rejected attempt proposed.
C24_RetryNeverReproposes ==
    [][ \A p \in DOMAIN call :
          /\ ProposesIpAgain(p) => call'[p].ip # call[p].ip
          /\ ProposesHostnameAgain(p) => call'[p].hostname # call[p].hostname
      ]_vars

\* C24, amended: after an insert was rejected by a uniqueness violation, the
\* next attempt of the call proposes no IP and no hostname that a committed
\* row holds, hence not the value of the column that caused the violation;
\* the value of a column that did not collide may be proposed again.
C24_RetryAvoidsCommittedValues ==
    [][ \A p \in DOMAIN call :
          /\ ProposesIpAgain(p)
               => /\ ~\E i \in 1..Len(hosts) : hosts[i].ip = Val(call'[p].ip)
                  /\ (\E i \in 1..Len(hosts) : hosts[i].ip = Val(call[p].ip))
                       => call'[p].ip # call[p].ip
          /\ ProposesHostnameAgain(p)
               => /\ ~\E i \in 1..Len(hosts) : hosts[i].hostname = Val(call'[p].hostname)
                  /\ (\E i \in 1..Len(hosts) : hosts[i].hostname = Val(call[p].hostname))
                       => call'[p].hostname # call[p].hostname
      ]_vars

\* A second attempt has proposed its IP and hostname: the suggested IP was
\* taken and another was allocated, or the suggested IP was proposed again.
C24_Witness ==
    \E p \in DOMAIN call :
        /\ call[p].retry_attempt = 1
        /\ call[p].pc = "insert"
        /\ ~IsNone(call[p].suggested_ip)
        /\ call[p].ip # call[p].suggested_ip

\* The addresses of the pool that may be assigned: all but the network address
\* and, for IPv4, the broadcast address.
UsableAddresses(net) ==
    {Addr(net.version, a) :
        a \in {b \in (net.network_address + 1)..(net.network_address + net.num_addresses - 1) :
                  Usable(Addr(net.version, b), net)}}

\* C25: in a pool of fewer than 100,000 usable addresses the scan of
\* allocate_ip visits every usable address exactly once from any start offset;
\* the call gets a usable address that no row it read holds whenever there is
\* one, and fails with "No available IPs" exactly when there is none.
C25_SmallPoolScanFindsAnyFree ==
    [][ \A p \in DOMAIN call :
          ( /\ call[p].pc = "allocate_ip"
            /\ call'[p].pc # "allocate_ip"
            /\ NumHosts(RUNTIME_CONFIG.cidr) < LARGE_THRESHOLD )
          => LET net == RUNTIME_CONFIG.cidr
                 rows == HostsSeenBy(p)
                 occupied == {rows[i].ip : i \in 1..Len(rows)}
                 free == UsableAddresses(net) \ occupied
             IN  /\ \A start_offset \in Randbelow(NumHosts(net)) :
                       /\ {ScanCandidate(net, start_offset, i) : i \in 0..(NumHosts(net) - 1)}
                            = UsableAddresses(net)
                       /\ \A i, j \in 0..(NumHosts(net) - 1) :
                             ScanCandidate(net, start_offset, i)
                               = ScanCandidate(net, start_offset, j) => i = j
                 /\ call'[p].pc = "hostname" => Val(call'[p].ip) \in free
                 /\ free # {} => call'[p].pc = "hostname"
                 /\ free = {} => /\ call'[p].pc = "failed"
                                 /\ call'[p].detail = "RuntimeError: No available IPs"
      ]_vars

\* C26: the key is read once per call, at admission and before the first
\* attempt: the row id, the uses_remaining, the groups and the time the call
\* holds are those of the row as admission found it, no later step of the call
\* changes them, whatever other calls commit meanwhile, and the value the call
\* writes to the key is the uses_remaining it read at admission minus one.
InAttempt(c) == c.pc \notin {"idle", "done", "failed"}

C26_KeyReadOnce ==
    [][ \A p \in DOMAIN call :
          /\ (call[p].pc = "idle" /\ InAttempt(call'[p]))
               => /\ call'[p].retry_attempt = 0
                  /\ call'[p].api_id = LookupKey(hash_key(call'[p].api_key))
                  /\ call'[p].uses = api_keys[call'[p].api_id].uses_remaining
                  /\ call'[p].groups = api_keys[call'[p].api_id].groups
                  /\ call'[p].now = clock
          /\ (InAttempt(call[p]) /\ call'[p].pc # "failed")
               => /\ call'[p].api_id = call[p].api_id
                  /\ call'[p].uses = call[p].uses
                  /\ call'[p].groups = call[p].groups
                  /\ call'[p].now = call[p].now
          /\ (call[p].pc = "update" /\ call'[p].pc = "commit")
               => txn'.key_updates =
                    <<[id |-> call[p].api_id, uses_remaining |-> Val(call[p].uses) - 1]>>
          /\ (call[p].pc = "commit" /\ call'[p].pc = "done" /\ ~IsNone(call[p].uses))
               => api_keys'[call[p].api_id].uses_remaining = Some(Val(call[p].uses) - 1)
      ]_vars

\* A call on a later attempt is about to write the counter, and the row of its
\* key no longer holds what the call read at admission.
C26_Witness ==
    \E p \in DOMAIN call :
        /\ call[p].pc = "commit"
        /\ call[p].retry_attempt > 0
        /\ ~IsNone(call[p].uses)
        /\ api_keys[call[p].api_id].uses_remaining # call[p].uses
        /\ txn.key_updates # <<>>

\* What the admission of a row reports when the checks run in the order
\* unknown digest, expired (expiration set and strictly before now),
\* exhausted, empty groups; "" when none applies.
FirstFailedCheck(found, row, now) ==
    IF ~found THEN "Invalid API key"
    ELSE IF ~IsNone(row.expiration) /\ Val(row.expiration) < now THEN "API key expired"
    ELSE IF ~IsNone(row.uses_remaining) /\ Val(row.uses_remaining) <= 0
         THEN "No uses remaining on API key"
    ELSE IF row.groups = {} THEN "API key has no groups defined"
    ELSE ""

\* C27: the first of the admission checks, in the order unknown digest,
\* expired, exhausted, empty groups, that applies to the key of a well-formed
\* request determines the failure reported; a key both expired and exhausted
\* is reported expired, and a key that expires at the current time is not.
C27_FirstCheckReported ==
    [][ \A p \in DOMAIN call :
          ( /\ call[p].pc = "idle"
            /\ call'[p].pc # "idle"
            /\ call'[p].status # 422 )
          => LET id == LookupKey(hash_key(call'[p].api_key))
                 row == IF id = 0 THEN SeedKeyRow ELSE api_keys[id]
                 first == FirstFailedCheck(id # 0, row, clock)
             IN  /\ first = "" => call'[p].pc # "failed"
                 /\ first # "" => call'[p].pc = "failed" /\ call'[p].detail = first
                 /\ (id # 0 /\ row.expiration = Some(clock))
                      => call'[p].detail # "API key expired"
      ]_vars

\* The positions a call may move to from each position: admission, then per
\* attempt the IP, the hostname, the signer and the insert, then the key
\* update and the commit; "failed" from any of them.
StepOrder ==
    [ idle            |-> {"check_suggested", "allocate_ip", "failed"},
      check_suggested |-> {"hostname", "allocate_ip", "failed"},
      allocate_ip     |-> {"allocate_ip", "hostname", "failed"},
      hostname        |-> {"hostname", "sign", "failed"},
      sign            |-> {"insert", "failed"},
      insert          |-> {"check_suggested", "allocate_ip", "update", "commit", "failed"},
      update          |-> {"commit"},
      commit          |-> {"done"},
      done            |-> {},
      failed          |-> {} ]

\* C28: the steps of a call occur in the order admit, allocate, sign, insert.
\* A call that failed takes no further step, so the signer is not invoked
\* after a rejected key or a failed allocation; the signer is reached only
\* with the IP and the hostname of the attempt allocated; the insert is
\* reached only from a signer that returned the certificate of that IP and
\* hostname; and the key update is written only after the insert succeeded.
C28_StepsInOrder ==
    [][ \A p \in DOMAIN call :
          /\ call'[p] # call[p] => call'[p].pc \in StepOrder[call[p].pc]
          /\ (call'[p].pc = "sign" /\ call[p].pc # "sign")
               => /\ call'[p].api_id # 0
                  /\ ~IsNone(call'[p].ip)
                  /\ ~IsNone(call'[p].hostname)
                  /\ call'[p].retry_attempt = call[p].retry_attempt
          /\ (call'[p].pc = "insert" /\ call[p].pc # "insert")
               => /\ call[p].pc = "sign"
                  /\ call'[p].host_cert =
                       Some(SignedCert(Val(call[p].hostname), Val(call[p].ip), call[p].groups))
          /\ (call'[p].pc \in {"update", "commit"} /\ call[p].pc = "insert")
               => /\ txn'.owner = p
                  /\ txn'.hosts = txn.hosts \o <<HostRow(call[p])>>
                  /\ txn'.key_updates = <<>>
          /\ (txn'.owner = p /\ txn'.key_updates # txn.key_updates)
               => /\ call[p].pc = "update"
                  /\ txn.hosts # <<>>
      ]_vars

\* A call that was rejected once by the insert has signed and inserted again
\* and written its key update.
C28_Witness ==
    \E p \in DOMAIN call :
        /\ call[p].pc = "commit"
        /\ call[p].retry_attempt > 0
        /\ txn.owner = p
        /\ txn.hosts # <<>>
        /\ txn.key_updates # <<>>

\* A committed row holds hostname hn.
HostnameHeld(hn) == \E i \in 1..Len(hosts) : hosts[i].hostname = hn

\* C29: every candidate of generate_hostname is the prefix without trailing
\* hyphens, a hyphen and a suffix of exactly random_suffix_length hexadecimal
\* digits; a candidate no committed row holds is returned at once, one that a
\* row holds is followed by another as long as fewer than 20 were made, and
\* the generation error is raised exactly when the 20th candidate collides too.
C29_HostnameCandidates ==
    [][ \A p \in DOMAIN call :
          (call[p].pc = "hostname" /\ call'[p] # call[p])
          => /\ call[p].hn_attempt < HOSTNAME_ATTEMPTS
             /\ call'[p].pc # "failed"
                  => LET hn == Val(call'[p].hn)
                         stem == PrefixOf(call[p].hostname_prefix)
                     IN  /\ \E k \in 0..Len(stem) :
                               /\ hn[1] = SubSeq(stem, 1, k)
                               /\ \A i \in (k + 1)..Len(stem) : stem[i] = "-"
                               /\ k > 0 => stem[k] # "-"
                         /\ Len(hn[2]) = RUNTIME_CONFIG.random_suffix_length
                         /\ \A i \in 1..Len(hn[2]) :
                               \E d \in 1..Len(HexDigits) : hn[2][i] = HexDigits[d]
                         /\ ~HostnameHeld(hn)
                              => /\ call'[p].pc = "sign"
                                 /\ call'[p].hostname = Some(hn)
                         /\ HostnameHeld(hn)
                              => /\ call'[p].pc = "hostname"
                                 /\ call'[p].hn_attempt = call[p].hn_attempt + 1
                                 /\ call'[p].hn_attempt < HOSTNAME_ATTEMPTS
             /\ call'[p].pc = "failed"
                  => /\ call[p].hn_attempt = HOSTNAME_ATTEMPTS - 1
                     /\ call'[p].detail = "RuntimeError: Could not generate unique hostname"
                     /\ \E i \in 1..Len(hosts) :
                           /\ hosts[i].hostname[1] = RStrip(PrefixOf(call[p].hostname_prefix), "-")
                           /\ Len(hosts[i].hostname[2]) = RUNTIME_CONFIG.random_suffix_length
      ]_vars

\* One call got a hostname and a later one made 20 candidates that all
\* collided.
C29_Witness ==
    \E p, q \in DOMAIN call :
        /\ call[p].pc = "done"
        /\ Len(Val(call[p].bundle).hostname[2]) = RUNTIME_CONFIG.random_suffix_length
        /\ call[q].pc = "failed"
        /\ call[q].detail = "RuntimeError: Could not generate unique hostname"

\* C30: in a pool of 100,000 usable addresses or more every step of
\* allocate_ip is one random probe, and at most 100 are made: a probed address
\* that no committed row holds is returned at once, one that a row holds is
\* followed by another probe as long as fewer than 100 were made, and the
\* capacity error is raised exactly when the 100th probe finds a held address
\* too; there is no scan of the pool, so this happens while addresses are free.
C30_LargePoolProbes ==
    [][ \A p \in DOMAIN call :
          ( /\ call[p].pc = "allocate_ip"
            /\ call'[p] # call[p]
            /\ NumHosts(RUNTIME_CONFIG.cidr) >= LARGE_THRESHOLD )
          => /\ call[p].probe < LARGE_PROBES
             /\ call'[p].pc # "failed"
                  => LET probed == Val(call'[p].candidate)
                     IN  /\ InNet(probed, RUNTIME_CONFIG.cidr)
                         /\ ~Held(probed)
                              => /\ call'[p].pc = "hostname"
                                 /\ call'[p].ip = Some(probed)
                         /\ Held(probed)
                              => /\ call'[p].pc = "allocate_ip"
                                 /\ call'[p].probe = call[p].probe + 1
                                 /\ call'[p].probe < LARGE_PROBES
             /\ call'[p].pc = "failed"
                  => /\ call[p].probe = LARGE_PROBES - 1
                     /\ call'[p].detail = "RuntimeError: Could not allocate IP"
                     /\ hosts # <<>>
      ]_vars

\* A call made 100 probes that all found a held address and failed with the
\* capacity error, in a pool whose last usable address is free.
C30_Witness ==
    /\ NumHosts(RUNTIME_CONFIG.cidr) >= LARGE_THRESHOLD
    /\ ~Held(ProbeCandidate(RUNTIME_CONFIG.cidr, NumHosts(RUNTIME_CONFIG.cidr) - 1))
    /\ \E p \in DOMAIN call :
          /\ call[p].pc = "failed"
          /\ call[p].detail = "RuntimeError: Could not allocate IP"

\* C31: a start of the server seeds a key of table configs only when the table
\* lacks it: a restart, also one with another subnet, validity period or
\* suffix length in the environment, leaves the persisted values as they were
\* and loads them into the cache; no other step writes the table or the cache.
C31_ConfigSeededOnce ==
    [][ /\ RUNTIME_CONFIG' = configs'
        /\ configs' = configs
        /\ boot'.starts = boot.starts => RUNTIME_CONFIG' = RUNTIME_CONFIG
        /\ \A k \in ConfigKeys :
              /\ SeededConfigs(NoConfigs, CONFIG')[k]
                   = IF k = "cidr" THEN CONFIG'.subnet_cidr
                     ELSE IF k = "default_expiry_days" THEN CONFIG'.default_expiry_days
                     ELSE CONFIG'.random_suffix_length
              /\ SeededConfigs([j \in {k} |-> configs[j]], OtherDefaults)[k] = configs[k]
      ]_vars

\* After a restart with another validity period and suffix length in the
\* environment a host was onboarded under the persisted values.
C31_Witness ==
    /\ boot.starts > 1
    /\ CONFIG.default_expiry_days # RUNTIME_CONFIG.default_expiry_days
    /\ CONFIG.random_suffix_length # RUNTIME_CONFIG.random_suffix_length
    /\ Len(hosts) > boot.hosts
    /\ Len(hosts[Len(hosts)].hostname[2]) = RUNTIME_CONFIG.random_suffix_length
    /\ hosts[Len(hosts)].expiry
         = hosts[Len(hosts)].created_at + RUNTIME_CONFIG.default_expiry_days * SECONDS_PER_DAY

\* C32: every onboarding call terminates.  A call makes at most 10 attempts,
\* at most 100 probes and at most 20 hostname candidates in an attempt, and a
\* call that was admitted ends done or failed, whatever the other calls do.
C32_CallTerminates ==
    /\ [](\A p \in Procs :
            /\ call[p].retry_attempt < max_retries
            /\ call[p].probe < LARGE_PROBES
            /\ call[p].hn_attempt < HOSTNAME_ATTEMPTS)
    /\ \A p \in Procs : InAttempt(call[p]) ~> (call[p].pc \in {"done", "failed"})

\* Two calls ran at once: one lost the insert to the other and ended done on
\* its second attempt.
C32_Witness ==
    \E p, q \in Procs :
        /\ p # q
        /\ call[p].pc = "done"
        /\ call[p].retry_attempt > 0
        /\ call[q].pc \in {"done", "failed"}

\* C33: every committed Host row's ip, suggested or allocated, is a usable
\* address of the pool the allocator draws from, and a suggestion is
\* validated against that same pool, also after a start under a configured
\* subnet that differs from the persisted one.
C33_OnePool ==
    /\ \A j \in HostIds : Usable(hosts[j].ip, RUNTIME_CONFIG.cidr)
    /\ \A p \in Calls :
          call[p].pc = "check_suggested" => CONFIG.subnet_cidr = RUNTIME_CONFIG.cidr

\* The certificate the signer writes for a hostname, an ip and groups.
CertFor(hostname, ip, groups) ==
    [header |-> TRUE, name |-> hostname, ip |-> ip, groups |-> groups]

\* C34: the certificate of a committed Host row, and of the bundle, is the one
\* the signer produced in the same attempt for that row's hostname, ip and
\* groups.  A call reaches the insert from the signer only, with the
\* certificate for its present hostname, ip and groups; a rejected insert
\* stores nothing and sends the call back before the signer or ends it without
\* a bundle; the row an accepted insert writes and the bundle of the commit
\* carry the certificate of that attempt.
C34_CertOfSameAttempt ==
    [][ /\ \A j \in 1..Len(hosts') :
              hosts'[j].current_cert =
                  CertFor(hosts'[j].hostname, hosts'[j].ip, hosts'[j].groups)
        /\ \A p \in DOMAIN call :
              LET c == call[p]
                  d == call'[p]
              IN  /\ (d.pc = "insert" /\ c.pc # "insert")
                        => /\ c.pc = "sign"
                           /\ d.host_cert = Some(CertFor(Val(d.hostname), Val(d.ip), d.groups))
                  /\ (c.pc = "insert" /\ d.pc \in {"update", "commit"})
                        => /\ txn'.owner = p
                           /\ Len(txn'.hosts) = 1
                           /\ txn'.hosts[1].current_cert = Val(c.host_cert)
                           /\ txn'.hosts[1].current_cert =
                                  CertFor(Val(c.hostname), Val(c.ip), c.groups)
                           /\ txn'.hosts[1].hostname = Val(c.hostname)
                           /\ txn'.hosts[1].ip = Val(c.ip)
                           /\ txn'.hosts[1].groups = c.groups
                  /\ (c.pc = "insert" /\ d.pc \notin {"insert", "update", "commit"})
                        => /\ hosts' = hosts
                           /\ txn'.hosts = <<>>
                           /\ d.pc \in {"check_suggested", "allocate_ip", "failed"}
                           /\ IsNone(d.bundle)
                  /\ (c.pc = "commit" /\ d.pc = "done")
                        => /\ hosts' = Append(hosts, txn.hosts[1])
                           /\ Val(d.bundle).host_cert = hosts'[Len(hosts')].current_cert
                           /\ Val(d.bundle).host_cert =
                                  CertFor(Val(d.bundle).hostname, Val(d.bundle).ip,
                                          hosts'[Len(hosts')].groups)
                           /\ Val(d.bundle).host_cert = Val(c.host_cert)
      ]_vars

\* A call's insert was rejected, and its second attempt, with another
\* hostname or ip, was committed and answered with the certificate of the
\* second attempt.
C34_Witness ==
    \E p \in Calls :
        /\ call[p].pc = "done"
        /\ call[p].retry_attempt > 0
        /\ \E j \in HostIds :
              /\ hosts[j].current_cert = Val(call[p].bundle).host_cert
              /\ hosts[j].current_cert.name = hosts[j].hostname
              /\ hosts[j].current_cert.ip = hosts[j].ip

\* C35: the persisted rows are append-only apart from key metering.  A step
\* keeps every Host row and every ApiKey row in place; it adds one Host row
\* exactly when a call ends done and none when a call ends failed; it changes
\* no column of an ApiKey row but uses_remaining, and no column at all of a
\* row whose uses_remaining is null; the rows added since the start are as
\* many as the calls that ended done.
C35_AppendOnly ==
    [][ /\ Len(hosts') >= Len(hosts)
        /\ \A j \in 1..Len(hosts) : hosts'[j] = hosts[j]
        /\ Len(hosts') - Len(hosts) =
              Cardinality({p \in DOMAIN call : call[p].pc # "done" /\ call'[p].pc = "done"})
        /\ (\E p \in DOMAIN call : call[p].pc # "failed" /\ call'[p].pc = "failed")
              => hosts' = hosts /\ api_keys' = api_keys
        /\ Len(hosts') = boot'.hosts
                           + Cardinality({p \in DOMAIN call : call'[p].pc = "done"})
        /\ Len(api_keys') >= Len(api_keys)
        /\ \A i \in 1..Len(api_keys) :
              /\ api_keys'[i] =
                    [api_keys[i] EXCEPT !.uses_remaining = api_keys'[i].uses_remaining]
              /\ IsNone(api_keys[i].uses_remaining) => api_keys'[i] = api_keys[i]
              /\ api_keys'[i] # api_keys[i]
                    => \E p \in DOMAIN call : /\ call[p].pc = "commit"
                                              /\ call'[p].pc = "done"
                                              /\ call[p].api_id = i
      ]_vars

\* A call with a metered key and a call with an unmetered key ended done, and
\* the counter of the metered key was written.
C35_Witness ==
    /\ \E i, k \in KeyIds :
          /\ IsNone(api_keys[i].uses_remaining)
          /\ HostsOfKey(i) # {}
          /\ api_keys[k].uses_remaining = Some(0)
          /\ HostsOfKey(k) # {}
    /\ Len(hosts) > boot.hosts

\* C36: in every reachable state each committed Host row's api_key_id refers
\* to an existing ApiKey row and the Host row's groups equal that ApiKey's
\* groups; the key is the one the call that created the row was sent and was
\* admitted with: at admission the call holds the id and the groups of the
\* row whose key_hash is the digest of its key, a row the admission checks
\* let pass (no expiry in the past but 0, a use left, groups), and the row it
\* commits carries that id and those groups.
C36_HostRefersToAdmittedKey ==
    /\ [](\A j \in HostIds :
            /\ hosts[j].api_key_id \in KeyIds
            /\ hosts[j].groups = api_keys[hosts[j].api_key_id].groups)
    /\ [][ \A p \in DOMAIN call :
              LET c == call[p]
                  d == call'[p]
              IN  /\ (c.pc = "idle" /\ InAttempt(d))
                        => /\ d.api_id \in KeyIds
                           /\ api_keys[d.api_id].key_hash = <<"sha256", d.api_key>>
                           /\ d.groups = api_keys[d.api_id].groups
                           /\ d.groups # {}
                           /\ (IsNone(api_keys[d.api_id].uses_remaining)
                                 \/ Val(api_keys[d.api_id].uses_remaining) > 0)
                           /\ (IsNone(api_keys[d.api_id].expiration)
                                 \/ Val(api_keys[d.api_id].expiration) >= clock
                                 \/ Val(api_keys[d.api_id].expiration) = 0)
                  /\ (InAttempt(c) /\ InAttempt(d))
                        => d.api_id = c.api_id /\ d.groups = c.groups
                  /\ (c.pc = "commit" /\ d.pc = "done")
                        => /\ Len(hosts') = Len(hosts) + 1
                           /\ hosts'[Len(hosts')].api_key_id = c.api_id
                           /\ hosts'[Len(hosts')].groups = c.groups
          ]_vars

\* Two keys with different groups exist, and a call sent the second of them
\* has committed a row with that key's id and groups.
C36_Witness ==
    \E p \in Calls, j \in HostIds, i \in KeyIds :
        /\ call[p].pc = "done"
        /\ Val(call[p].bundle).ip = hosts[j].ip
        /\ hosts[j].api_key_id = i
        /\ i > 1
        /\ api_keys[i].key_hash = <<"sha256", call[p].api_key>>
        /\ hosts[j].groups = api_keys[i].groups
        /\ api_keys[1].groups # api_keys[i].groups

\* C37: every ApiKey row created through the key-issuance endpoint has a
\* non-empty group set: a request with no groups is answered 400 or 403 and
\* writes no row, and a request answered 200 writes a row with the groups it
\* was given.  Hence no onboarding call is refused for a key without groups,
\* and every committed Host row and every signer invocation carries at least
\* one group.
C37_GroupsNeverEmpty ==
    /\ [](/\ \A i \in KeyIds : api_keys[i].groups # {}
          /\ \A j \in HostIds : hosts[j].groups # {} /\ hosts[j].current_cert.groups # {}
          /\ \A p \in Calls :
                /\ call[p].pc \in {"sign", "insert", "update", "commit"}
                      => call[p].groups # {}
                /\ call[p].pc = "failed"
                      => call[p].detail # "API key has no groups defined")
    /\ [][ Len(api_keys') # Len(api_keys)
              => /\ admin'.status = 200
                 /\ admin'.groups # {}
                 /\ Len(api_keys') = Len(api_keys) + 1
                 /\ api_keys'[Len(api_keys')].groups = admin'.groups
          ]_vars
    /\ [][ (admin' # admin /\ admin'.groups = {})
              => admin'.status \in {400, 403} /\ api_keys' = api_keys
          ]_vars

\* A key was issued through the endpoint with one group, and a call sent
\* that key was signed a certificate and has committed a row, both with that
\* group.
C37_Witness ==
    /\ admin.status = 200
    /\ admin.groups = {"b"}
    /\ \E p \in Calls, j \in HostIds :
          /\ call[p].pc = "done"
          /\ call[p].api_key = Val(admin.api_key)
          /\ hosts[j].ip = Val(call[p].bundle).ip
          /\ hosts[j].api_key_id = Len(api_keys)
          /\ hosts[j].groups = {"b"}
          /\ Val(call[p].bundle).host_cert.groups = {"b"}

\* C38: the bundle a successful call returns describes the Host row that call
\* committed: its ip, hostname and expiry are those of the row, which are
\* those of the last attempt, and the expiry is the admission time plus
\* default_expiry_days times 86400 however many attempts were made and
\* however long they took.
C38_BundleDescribesRow ==
    /\ [](\A p \in Calls :
            call[p].pc = "done"
              => \E j \in HostIds :
                    /\ hosts[j].ip = Val(call[p].bundle).ip
                    /\ hosts[j].hostname = Val(call[p].bundle).hostname
                    /\ hosts[j].expiry = Val(call[p].bundle).expiry
                    /\ hosts[j].current_cert = Val(call[p].bundle).host_cert)
    /\ [][ \A p \in DOMAIN call :
              LET c == call[p]
                  d == call'[p]
              IN  /\ (c.pc = "idle" /\ InAttempt(d)) => d.now = clock
                  /\ (InAttempt(c) /\ InAttempt(d)) => d.now = c.now
                  /\ (c.pc = "commit" /\ d.pc = "done")
                        => /\ Len(hosts') = Len(hosts) + 1
                           /\ Val(d.bundle).ip = hosts'[Len(hosts')].ip
                           /\ Val(d.bundle).hostname = hosts'[Len(hosts')].hostname
                           /\ Val(d.bundle).expiry = hosts'[Len(hosts')].expiry
                           /\ Val(d.bundle).ip = Val(c.ip)
                           /\ Val(d.bundle).hostname = Val(c.hostname)
                           /\ Val(d.bundle).expiry =
                                  c.now + RUNTIME_CONFIG.default_expiry_days * SECONDS_PER_DAY
          ]_vars

\* A call was admitted, lost an insert, and ended done on a later attempt
\* after the clock had moved on; its bundle is that of the row it wrote.
C38_Witness ==
    \E p \in Calls, j \in HostIds :
        /\ call[p].pc = "done"
        /\ call[p].retry_attempt > 0
        /\ hosts[j].ip = Val(call[p].bundle).ip
        /\ hosts[j].hostname = Val(call[p].bundle).hostname
        /\ hosts[j].expiry = Val(call[p].bundle).expiry
        /\ clock > hosts[j].created_at

====
